---- MODULE Spec2Model ----
(***************************************************************************)
(* Model of the SyllabusAI exam pipeline: the exam synthesizer             *)
(* (server/gemini.ts), the answer grader and the attempt routes            *)
(* (server/routes.ts, server/storage.ts) and the schema they validate      *)
(* against (shared/schema.ts).                                              *)
(*                                                                         *)
(* Strings are sequences of one-character strings, so that toLowerCase,    *)
(* trim, includes, substring and split are computed, not assumed.          *)
(***************************************************************************)
EXTENDS Integers, Sequences, FiniteSets, TLC

VARIABLES
    gradeQuestion,   \* isAnswerCorrect: the question argument
    gradeAnswer,     \* isAnswerCorrect: the answer argument
    gradeResult,     \* isAnswerCorrect: "pending" or the returned boolean
    genInput,        \* generateExam: arguments and the backend's behaviour
    genOutput,       \* generateExam: "pending" or the outcome of the call
    syllabuses,      \* table syllabuses: id -> row
    exams,           \* table exams: sequence of rows, id = index
    questions,       \* table questions: sequence of rows, id = index
    examAttempts,    \* table exam_attempts: sequence of rows, id = index
    answers,         \* table answers: sequence of rows, id = index
    reqs,            \* per connection: the request handler in flight
    issued,          \* number of requests received so far
    page             \* the client: the page on screen and the state it keeps

gradeVars == <<gradeQuestion, gradeAnswer, gradeResult>>
genVars == <<genInput, genOutput>>
dbVars == <<syllabuses, exams, questions, examAttempts, answers>>
vars == <<gradeQuestion, gradeAnswer, gradeResult, genInput, genOutput,
          syllabuses, exams, questions, examAttempts, answers, reqs, issued,
          page>>

(***************************************************************************)
(* Bounds of the model.                                                    *)
(***************************************************************************)
MaxAnswerLen == 3
MaxKeyLen == 2

(***************************************************************************)
(* JavaScript string primitives on character sequences.                    *)
(***************************************************************************)
UpperCaseLetters ==
    <<"A","B","C","D","E","F","G","H","I","J","K","L","M",
      "N","O","P","Q","R","S","T","U","V","W","X","Y","Z">>
LowerCaseLetters ==
    <<"a","b","c","d","e","f","g","h","i","j","k","l","m",
      "n","o","p","q","r","s","t","u","v","w","x","y","z">>
DigitChars == <<"0","1","2","3","4","5","6","7","8","9">>
WhiteSpace == {" ", "\t", "\n", "\r"}

Range(f) == {f[i] : i \in DOMAIN f}

UpperCaseSet == Range(UpperCaseLetters)
LowerCaseSet == Range(LowerCaseLetters)
DigitSet == Range(DigitChars)
LowerOf == [c \in UpperCaseSet |->
               LowerCaseLetters[CHOOSE i \in 1..26 : UpperCaseLetters[i] = c]]
UpperOf == [c \in LowerCaseSet |->
               UpperCaseLetters[CHOOSE i \in 1..26 : LowerCaseLetters[i] = c]]

\* String.prototype.toLowerCase, one character
toLowerCaseChar(c) == IF c \in UpperCaseSet THEN LowerOf[c] ELSE c

\* String.prototype.toUpperCase, one character
toUpperCaseChar(c) == IF c \in LowerCaseSet THEN UpperOf[c] ELSE c

\* String.prototype.toLowerCase
toLowerCase(s) == [i \in 1..Len(s) |-> toLowerCaseChar(s[i])]

\* length of the longest run of characters of the class P that starts at offset
\* k (0-based) of s: what a greedy P* consumes there
runLength(s, k, P) ==
    CHOOSE n \in 0..(IF k < Len(s) THEN Len(s) - k ELSE 0) :
        /\ \A i \in 1..n : s[k + i] \in P
        /\ (k + n >= Len(s) \/ s[k + n + 1] \notin P)

\* the same, backwards from the end of s
runLengthAtEnd(s, P) ==
    CHOOSE n \in 0..Len(s) :
        /\ \A i \in 1..n : s[Len(s) - i + 1] \in P
        /\ (n = Len(s) \/ s[Len(s) - n] \notin P)

\* String.prototype.trimStart / trimEnd / trim
trimStart(s) == SubSeq(s, runLength(s, 0, WhiteSpace) + 1, Len(s))
trimEnd(s) == SubSeq(s, 1, Len(s) - runLengthAtEnd(s, WhiteSpace))
trim(s) == trimEnd(trimStart(s))

\* s.startsWith(p) at offset k (0-based)
startsWithAt(s, p, k) ==
    /\ k + Len(p) <= Len(s)
    /\ \A i \in 1..Len(p) : s[k + i] = p[i]

\* String.prototype.includes: p occurs at some offset of s
includes(s, p) == \E k \in 0..(Len(s) - Len(p)) : startsWithAt(s, p, k)

\* String.prototype.substring(0, n)
substring0(s, n) == SubSeq(s, 1, IF n < Len(s) THEN n ELSE Len(s))

(***************************************************************************)
(* The answer grader (routes.ts, isAnswerCorrect).                         *)
(***************************************************************************)
MultipleChoice == "multiple-choice"
ShortAnswer == "short-answer"
QuestionTypes == {MultipleChoice, ShortAnswer}

\* a faulty variant: the multiple-choice comparison forgets toLowerCase
isAnswerCorrect_caseSensitive(question, answer) ==
    IF question.questionType = MultipleChoice
    THEN answer = question.correctAnswer
    ELSE IF question.questionType = ShortAnswer
    THEN LET cleanAnswer == trim(toLowerCase(answer))
             cleanCorrect == trim(toLowerCase(question.correctAnswer))
         IN \/ cleanAnswer = cleanCorrect
            \/ includes(cleanCorrect, cleanAnswer)
            \/ includes(cleanAnswer, cleanCorrect)
    ELSE FALSE

\* a faulty variant: the short-answer comparison tests containment in one direction only
isAnswerCorrect_oneWay(question, answer) ==
    IF question.questionType = MultipleChoice
    THEN toLowerCase(answer) = toLowerCase(question.correctAnswer)
    ELSE IF question.questionType = ShortAnswer
    THEN LET cleanAnswer == trim(toLowerCase(answer))
             cleanCorrect == trim(toLowerCase(question.correctAnswer))
         IN \/ cleanAnswer = cleanCorrect
            \/ includes(cleanCorrect, cleanAnswer)
    ELSE FALSE

\* a faulty variant: an empty short answer is never contained in the key
isAnswerCorrect_nonEmpty(question, answer) ==
    IF question.questionType = MultipleChoice
    THEN toLowerCase(answer) = toLowerCase(question.correctAnswer)
    ELSE IF question.questionType = ShortAnswer
    THEN LET cleanAnswer == trim(toLowerCase(answer))
             cleanCorrect == trim(toLowerCase(question.correctAnswer))
         IN \/ cleanAnswer = cleanCorrect
            \/ cleanAnswer # <<>> /\ includes(cleanCorrect, cleanAnswer)
            \/ includes(cleanAnswer, cleanCorrect)
    ELSE FALSE

isAnswerCorrect(question, answer) ==
    IF question.questionType = MultipleChoice
    THEN toLowerCase(answer) = toLowerCase(question.correctAnswer)
    ELSE IF question.questionType = ShortAnswer
    THEN LET cleanAnswer == trim(toLowerCase(answer))
             cleanCorrect == trim(toLowerCase(question.correctAnswer))
         IN \/ cleanAnswer = cleanCorrect
            \/ includes(cleanCorrect, cleanAnswer)
            \/ includes(cleanAnswer, cleanCorrect)
    ELSE FALSE

(***************************************************************************)
(* String literals of server/gemini.ts, as character sequences.            *)
(***************************************************************************)
\* 'course'
S_course ==
    <<"c","o","u","r","s","e">>
\* 'title'
S_title ==
    <<"t","i","t","l","e">>
\* 'syllabus'
S_syllabus ==
    <<"s","y","l","l","a","b","u","s">>
\* '.pdf'
S_pdf ==
    <<".","p","d","f">>
\* '.docx'
S_docx ==
    <<".","d","o","c","x">>
\* '.txt'
S_txt ==
    <<".","t","x","t">>
\* 'Topic'
S_Topic ==
    <<"T","o","p","i","c">>
\* 'Learning'
S_Learning ==
    <<"L","e","a","r","n","i","n","g">>
\* 'Objective'
S_Objective ==
    <<"O","b","j","e","c","t","i","v","e">>
\* 'Study'
S_Study ==
    <<"S","t","u","d","y">>
\* 'Question '
S_Question ==
    <<"Q","u","e","s","t","i","o","n"," ">>
\* ': Which of the following best describes "'
S_McPrompt ==
    <<":"," ","W","h","i","c","h"," ","o","f"," ","t","h","e"," ","f","o",
      "l","l","o","w","i","n","g"," ","b","e","s","t"," ","d","e","s","c",
      "r","i","b","e","s"," ","\"">>
\* '"?'
S_McPromptEnd ==
    <<"\"","?">>
\* 'The primary framework for understanding '
S_OptionA ==
    <<"T","h","e"," ","p","r","i","m","a","r","y"," ","f","r","a","m","e",
      "w","o","r","k"," ","f","o","r"," ","u","n","d","e","r","s","t","a",
      "n","d","i","n","g"," ">>
\* 'A secondary concept related to '
S_OptionB ==
    <<"A"," ","s","e","c","o","n","d","a","r","y"," ","c","o","n","c","e",
      "p","t"," ","r","e","l","a","t","e","d"," ","t","o"," ">>
\* 'An application method for '
S_OptionC ==
    <<"A","n"," ","a","p","p","l","i","c","a","t","i","o","n"," ","m","e",
      "t","h","o","d"," ","f","o","r"," ">>
\* 'The historical development of '
S_OptionD ==
    <<"T","h","e"," ","h","i","s","t","o","r","i","c","a","l"," ","d","e",
      "v","e","l","o","p","m","e","n","t"," ","o","f"," ">>
\* ': Briefly explain the concept of "'
S_SaPrompt ==
    <<":"," ","B","r","i","e","f","l","y"," ","e","x","p","l","a","i","n",
      " ","t","h","e"," ","c","o","n","c","e","p","t"," ","o","f"," ",
      "\"">>
\* '" and its significance.'
S_SaPromptEnd ==
    <<"\""," ","a","n","d"," ","i","t","s"," ","s","i","g","n","i","f",
      "i","c","a","n","c","e",".">>
\* ' is a fundamental concept that involves understanding the core principles and applying them appropriately in context.'
S_SaAnswer ==
    <<" ","i","s"," ","a"," ","f","u","n","d","a","m","e","n","t","a","l",
      " ","c","o","n","c","e","p","t"," ","t","h","a","t"," ","i","n","v",
      "o","l","v","e","s"," ","u","n","d","e","r","s","t","a","n","d","i",
      "n","g"," ","t","h","e"," ","c","o","r","e"," ","p","r","i","n","c",
      "i","p","l","e","s"," ","a","n","d"," ","a","p","p","l","y","i","n",
      "g"," ","t","h","e","m"," ","a","p","p","r","o","p","r","i","a","t",
      "e","l","y"," ","i","n"," ","c","o","n","t","e","x","t",".">>
\* ' - '
S_TitleSep ==
    <<" ","-"," ">>
\* ' Difficulty Exam'
S_TitleEnd ==
    <<" ","D","i","f","f","i","c","u","l","t","y"," ","E","x","a","m">>
\* '...'
S_Ellipsis ==
    <<".",".",".">>
\* 'easy'
Easy ==
    <<"e","a","s","y">>
\* 'medium'
Medium ==
    <<"m","e","d","i","u","m">>
\* 'hard'
Hard ==
    <<"h","a","r","d">>
\* 'mixed'
Mixed ==
    <<"m","i","x","e","d">>
\* the fixed generic subject-area labels
subjectAreas ==
    <<
    \* 'Fundamental Concepts'
    <<"F","u","n","d","a","m","e","n","t","a","l"," ","C","o","n","c","e",
      "p","t","s">>,
    \* 'Key Principles'
    <<"K","e","y"," ","P","r","i","n","c","i","p","l","e","s">>,
    \* 'Theoretical Frameworks'
    <<"T","h","e","o","r","e","t","i","c","a","l"," ","F","r","a","m","e",
      "w","o","r","k","s">>,
    \* 'Application Methods'
    <<"A","p","p","l","i","c","a","t","i","o","n"," ","M","e","t","h","o",
      "d","s">>,
    \* 'Historical Context'
    <<"H","i","s","t","o","r","i","c","a","l"," ","C","o","n","t","e","x",
      "t">>,
    \* 'Practical Skills'
    <<"P","r","a","c","t","i","c","a","l"," ","S","k","i","l","l","s">>,
    \* 'Core Terminology'
    <<"C","o","r","e"," ","T","e","r","m","i","n","o","l","o","g","y">>,
    \* 'Analysis Techniques'
    <<"A","n","a","l","y","s","i","s"," ","T","e","c","h","n","i","q","u",
      "e","s">>
    >>

(***************************************************************************)
(* More string primitives used by the synthesizer.                         *)
(***************************************************************************)
\* String.prototype.split('\n'): the pieces between consecutive line feeds
split(s) ==
    LET nl == {i \in 1..Len(s) : s[i] = "\n"}
        n == Cardinality(nl)
        pos(k) == CHOOSE i \in nl : Cardinality({j \in nl : j < i}) = k - 1
        first(k) == IF k = 1 THEN 1 ELSE pos(k - 1) + 1
        last(k) == IF k = n + 1 THEN Len(s) ELSE pos(k) - 1
    IN [k \in 1..(n + 1) |-> SubSeq(s, first(k), last(k))]

\* Array.prototype.join(sep)
RECURSIVE join(_, _)
join(lines, sep) ==
    IF lines = <<>> THEN <<>>
    ELSE IF Len(lines) = 1 THEN lines[1]
    ELSE lines[1] \o sep \o join(Tail(lines), sep)

\* Array.prototype.slice(0, n)
slice0(a, n) == SubSeq(a, 1, IF n < Len(a) THEN n ELSE Len(a))

\* String(n) for a natural number
RECURSIVE numberToString(_)
numberToString(n) ==
    IF n < 10 THEN <<DigitChars[n + 1]>>
    ELSE numberToString(n \div 10) \o <<DigitChars[(n % 10) + 1]>>

\* line.match(/^\d+\./)
matchesNumbered(line) ==
    LET d == runLength(line, 0, DigitSet)
    IN d >= 1 /\ d < Len(line) /\ line[d + 1] = "."

(***************************************************************************)
(* extractCourseTitle (gemini.ts).                                         *)
(***************************************************************************)
TitleLines == 10

\* the character class \s
RegexSpace == WhiteSpace
\* the character class [a-z0-9\s] under the i flag
TitleClass == LowerCaseSet \cup UpperCaseSet \cup DigitSet \cup RegexSpace

NoMatch == [matched |-> FALSE, group |-> <<>>]

\* /label:?\s*([a-z0-9\s]+)/i tried at offset k (0-based) of s, whose lower
\* case is lower: the label, an optional colon, the longest run of white
\* space, then the longest run of the class. When no class character follows
\* the white space, the engine backtracks and gives the last white-space
\* character to the group.
labelMatchAt(s, lower, label, k) ==
    IF ~ startsWithAt(lower, label, k) THEN NoMatch
    ELSE LET j == k + Len(label)
             p == IF j < Len(s) /\ s[j + 1] = ":" THEN j + 1 ELSE j
             w == runLength(s, p, RegexSpace)
             c == runLength(s, p + w, TitleClass)
         IN IF c >= 1 THEN [matched |-> TRUE, group |-> SubSeq(s, p + w + 1, p + w + c)]
            ELSE IF w >= 1 THEN [matched |-> TRUE, group |-> SubSeq(s, p + w, p + w)]
            ELSE NoMatch

\* String.prototype.match without the g flag: the leftmost offset that matches
labelMatch(s, label) ==
    LET lower == toLowerCase(s)
        hits == {k \in 0..(Len(s) - Len(label)) :
                    labelMatchAt(s, lower, label, k).matched}
    IN IF hits = {} THEN NoMatch
       ELSE labelMatchAt(s, lower, label,
                         CHOOSE k \in hits : \A h \in hits : k <= h)

\* filename.replace(/\.(pdf|docx|txt)$/i, '')
stripExtension(filename) ==
    LET lower == toLowerCase(filename)
        ext(e) == Len(lower) >= Len(e) /\ startsWithAt(lower, e, Len(lower) - Len(e))
    IN IF ext(S_pdf) THEN SubSeq(filename, 1, Len(filename) - Len(S_pdf))
       ELSE IF ext(S_docx) THEN SubSeq(filename, 1, Len(filename) - Len(S_docx))
       ELSE IF ext(S_txt) THEN SubSeq(filename, 1, Len(filename) - Len(S_txt))
       ELSE filename

\* .replace(/_/g, ' ')
replaceUnderscores(s) == [i \in 1..Len(s) |-> IF s[i] = "_" THEN " " ELSE s[i]]

\* a faulty variant: every line of the text is searched
extractCourseTitle_allLines(content, filename) ==
    LET firstLines == join(split(content), <<" ">>)
        m1 == labelMatch(firstLines, S_course)
        m2 == labelMatch(firstLines, S_title)
        m3 == labelMatch(firstLines, S_syllabus)
        courseMatch == IF m1.matched THEN m1 ELSE IF m2.matched THEN m2 ELSE m3
    IN IF courseMatch.matched /\ trim(courseMatch.group) # <<>>
       THEN trim(courseMatch.group)
       ELSE replaceUnderscores(stripExtension(filename))

extractCourseTitle(content, filename) ==
    LET firstLines == join(slice0(split(content), TitleLines), <<" ">>)
        m1 == labelMatch(firstLines, S_course)
        m2 == labelMatch(firstLines, S_title)
        m3 == labelMatch(firstLines, S_syllabus)
        courseMatch == IF m1.matched THEN m1 ELSE IF m2.matched THEN m2 ELSE m3
    IN IF courseMatch.matched /\ trim(courseMatch.group) # <<>>
       THEN trim(courseMatch.group)
       ELSE replaceUnderscores(stripExtension(filename))

(***************************************************************************)
(* generateMockExam (gemini.ts).                                           *)
(***************************************************************************)
MaxTopicLines == 10
MaxSyllabusLines == 20
MaxTopicLength == 30

isTopicLine(line) ==
    \/ includes(line, S_Topic)
    \/ includes(line, S_Learning)
    \/ includes(line, S_Objective)
    \/ includes(line, S_Study)
    \/ matchesNumbered(line)

\* the lines the mock questions are based on
relevantLinesOf(syllabusContent) ==
    LET syllabusLines == split(syllabusContent)
        topicLines == SelectSeq(syllabusLines, isTopicLine)
    IN IF Len(topicLines) > MaxTopicLines
       THEN slice0(topicLines, MaxTopicLines)
       ELSE slice0(syllabusLines, MaxSyllabusLines)

\* the text question i (0-based) is based on
baseTextOf(relevantLines, i) ==
    IF Len(relevantLines) > i
    THEN relevantLines[i + 1]
    ELSE subjectAreas[(i % Len(subjectAreas)) + 1]

topicOf(baseText) ==
    IF Len(baseText) > MaxTopicLength
    THEN trim(substring0(baseText, MaxTopicLength)) \o S_Ellipsis
    ELSE trim(baseText)

\* a faulty variant: the cycle starts at medium
difficultyOf_shifted(config, i) ==
    IF config.difficulty = Mixed
    THEN <<Easy, Medium, Hard>>[((i + 1) % 3) + 1]
    ELSE config.difficulty

difficultyOf(config, i) ==
    IF config.difficulty = Mixed
    THEN <<Easy, Medium, Hard>>[(i % 3) + 1]
    ELSE config.difficulty

\* question i (0-based) of the mock exam
mockQuestion(relevantLines, config, i) ==
    LET topic == topicOf(baseTextOf(relevantLines, i))
        difficulty == difficultyOf(config, i)
    IN IF config.type = MultipleChoice
       THEN [content |-> S_Question \o numberToString(i + 1) \o S_McPrompt
                           \o topic \o S_McPromptEnd,
             questionType |-> MultipleChoice,
             options |-> << [id |-> <<"a">>, text |-> S_OptionA \o topic],
                            [id |-> <<"b">>, text |-> S_OptionB \o topic],
                            [id |-> <<"c">>, text |-> S_OptionC \o topic],
                            [id |-> <<"d">>, text |-> S_OptionD \o topic] >>,
             correctAnswer |-> <<"a">>,
             topic |-> topic,
             difficulty |-> difficulty]
       ELSE [content |-> S_Question \o numberToString(i + 1) \o S_SaPrompt
                           \o topic \o S_SaPromptEnd,
             questionType |-> ShortAnswer,
             correctAnswer |-> topic \o S_SaAnswer,
             topic |-> topic,
             difficulty |-> difficulty]

\* str.charAt(0).toUpperCase() + str.slice(1)
capitalize(s) ==
    IF s = <<>> THEN <<>> ELSE <<toUpperCaseChar(s[1])>> \o Tail(s)

\* a faulty variant: the loop stops one question early
generateMockExam_short(syllabusContent, config, courseTitle) ==
    LET relevantLines == relevantLinesOf(syllabusContent)
    IN [title |-> courseTitle \o S_TitleSep \o capitalize(config.difficulty)
                    \o S_TitleEnd,
        questions |-> [k \in 1..(config.questionCount - 1) |->
                          mockQuestion(relevantLines, config, k - 1)]]

generateMockExam(syllabusContent, config, courseTitle) ==
    LET relevantLines == relevantLinesOf(syllabusContent)
    IN [title |-> courseTitle \o S_TitleSep \o capitalize(config.difficulty)
                    \o S_TitleEnd,
        questions |-> [k \in 1..config.questionCount |->
                          mockQuestion(relevantLines, config, k - 1)]]

(***************************************************************************)
(* generateExam (gemini.ts).                                               *)
(*                                                                         *)
(* The backend either throws (model.generateContent or response.text()     *)
(* rejects: no API key, network failure, quota) or answers with a text.    *)
(* A response text is a sequence of segments: prose without braces, the    *)
(* text of a well-formed JSON object, or a braced text that is not JSON.   *)
(***************************************************************************)
\* the JavaScript object {}
EmptyObject == [f \in {} |-> f]

Prose == [seg |-> "prose", value |-> EmptyObject]
Broken == [seg |-> "broken", value |-> EmptyObject]
ObjectText(v) == [seg |-> "object", value |-> v]

\* responseText.match(/\{[\s\S]*\}/): from the first "{" to the last "}"
jsonMatch(responseText) ==
    LET braced == {i \in 1..Len(responseText) : responseText[i].seg # "prose"}
    IN IF braced = {} THEN [matched |-> FALSE, region |-> <<>>]
       ELSE LET first == CHOOSE i \in braced : \A j \in braced : i <= j
                last == CHOOSE i \in braced : \A j \in braced : j <= i
            IN [matched |-> TRUE, region |-> SubSeq(responseText, first, last)]

\* JSON.parse: accepts the text of exactly one well-formed object
JSONparse(text) ==
    IF Len(text) = 1 /\ text[1].seg = "object"
    THEN [ok |-> TRUE, value |-> text[1].value]
    ELSE [ok |-> FALSE, value |-> EmptyObject]

safeJsonParse(jsonString) ==
    IF jsonString = <<>> THEN EmptyObject
    ELSE IF JSONparse(jsonString).ok THEN JSONparse(jsonString).value
    ELSE EmptyObject

Returned(v) == [threw |-> FALSE, value |-> v]
Thrown == [threw |-> TRUE, value |-> EmptyObject]

\* a faulty variant: the backend's error propagates to the caller
generateExam_propagates(syllabusContent, config, filename, backend) ==
    LET courseTitle == extractCourseTitle(syllabusContent, filename)
    IN IF backend.throws
       THEN Thrown
       ELSE LET m == jsonMatch(backend.responseText)
                jsonContent == IF m.matched THEN m.region
                               ELSE <<ObjectText(EmptyObject)>>
            IN Returned(safeJsonParse(jsonContent))

\* The outer try block holds only string operations on string arguments, so
\* its catch clause is never entered; the inner one catches the backend.
generateExam(syllabusContent, config, filename, backend) ==
    LET courseTitle == extractCourseTitle(syllabusContent, filename)
    IN IF backend.throws
       THEN Returned(generateMockExam(syllabusContent, config, courseTitle))
       ELSE LET m == jsonMatch(backend.responseText)
                jsonContent == IF m.matched THEN m.region
                               ELSE <<ObjectText(EmptyObject)>>
            IN Returned(safeJsonParse(jsonContent))

(***************************************************************************)
(* extractTopics (gemini.ts). The value of the topics field of a response   *)
(* is a JSON value of any kind: null, a number, an array or an object;     *)
(* items holds the elements of the array or object, and for a number the   *)
(* single element [number |-> n].                                          *)
(***************************************************************************)
Json(kind, items) == [json |-> kind, items |-> items]

\* the list returned when the response yields no topics; the names are
\* never taken apart, so they are kept as whole strings
DefaultTopics ==
    Json("array",
         << [name |-> "Main Concepts", importance |-> 10],
            [name |-> "Key Definitions", importance |-> 8],
            [name |-> "Theoretical Frameworks", importance |-> 7],
            [name |-> "Applied Methodologies", importance |-> 9],
            [name |-> "Historical Context", importance |-> 6],
            [name |-> "Case Studies", importance |-> 8],
            [name |-> "Research Methods", importance |-> 7] >>)

\* parsedResult.topics || [] keeps every truthy value; topics.length === 0
\* holds of the empty array only (an object or a number has no length)
extractTopics(syllabusContent, backend) ==
    IF backend.throws THEN Returned(DefaultTopics)
    ELSE LET m == jsonMatch(backend.responseText)
             jsonContent == IF m.matched THEN m.region
                            ELSE <<ObjectText(EmptyObject)>>
             parsedResult == safeJsonParse(jsonContent)
             falsy(v) == v.json = "null" \/ v = Json("number", <<[number |-> 0]>>)
             topics == IF "topics" \in DOMAIN parsedResult
                          /\ ~ falsy(parsedResult.topics)
                       THEN parsedResult.topics
                       ELSE Json("array", <<>>)
         IN IF topics.json = "array" /\ Len(topics.items) = 0
            THEN Returned(DefaultTopics)
            ELSE Returned(topics)

(***************************************************************************)
(* generateExam of the OpenAI integration (openai.ts). The client either   *)
(* throws (no key configured, network failure) or answers with a content   *)
(* that response_format json_object makes the text of one object; every    *)
(* error is rethrown as 'Failed to generate exam questions'.               *)
(***************************************************************************)
openaiGenerateExam(syllabusContent, config, filename, openai) ==
    IF openai.throws THEN Thrown
    ELSE Returned(safeJsonParse(openai.content))

(***************************************************************************)
(* Inputs of the synthesizer: syllabus texts, configs, filenames and       *)
(* backend behaviours.                                                      *)
(***************************************************************************)
MaxLines == 2

\* 'Course: Bio 1'
L_course ==
    <<"C","o","u","r","s","e",":"," ","B","i","o"," ","1">>
\* 'Grading'
L_plain ==
    <<"G","r","a","d","i","n","g">>
\* 'Study of cells and tissues in the body'
L_long ==
    <<"S","t","u","d","y"," ","o","f"," ","c","e","l","l","s"," ","a","n","d"," ","t","i","s","s","u","e","s"," ","i","n"," ","t","h","e"," ","b","o","d","y">>
\* '1. Cells'
L_numbered ==
    <<"1","."," ","C","e","l","l","s">>
LinePool == {L_course, L_plain, L_long, L_numbered}

\* more topic lines than generateMockExam keeps
ManyTopicLines ==
    [k \in 1..(MaxTopicLines + 1) |-> numberToString(k) \o <<".", " ", "T">>]

SeqsUpTo(S, n) == UNION {[1..k -> S] : k \in 0..n}

SyllabusLineSeqs ==
    {pre \o ls : pre \in {<<>>, ManyTopicLines}, ls \in SeqsUpTo(LinePool, MaxLines)}

SyllabusContents == {join(ls, <<"\n">>) : ls \in SyllabusLineSeqs}

\* 'my_notes.pdf'
F_notes ==
    <<"m","y","_","n","o","t","e","s",".","p","d","f">>
\* 'bio.md'
F_bio ==
    <<"b","i","o",".","m","d">>
Filenames == {F_notes, F_bio}

\* examConfigSchema (shared/schema.ts): the bounds of questionCount
MinQuestionCount == 5
MaxQuestionCount == 50
Difficulties == {Easy, Medium, Hard, Mixed}
QuestionCounts == {MinQuestionCount, MaxTopicLines + 2}

\* timeLimit: <<>> when undefined, <<minutes>> when defined
ExamConfigs ==
    [type : QuestionTypes, questionCount : QuestionCounts,
     difficulty : Difficulties, topics : {<<>>}, timeLimit : {<<>>}]

\* 'Quiz'
T_quiz ==
    <<"Q","u","i","z">>
\* 'What is a cell?'
T_cell ==
    <<"W","h","a","t"," ","i","s"," ","a"," ","c","e","l","l","?">>
\* 'the unit of life'
T_unit ==
    <<"t","h","e"," ","u","n","i","t"," ","o","f"," ","l","i","f","e">>

AiMcQuestion ==
    [content |-> T_cell, questionType |-> MultipleChoice,
     options |-> << [id |-> <<"a">>, text |-> T_quiz],
                    [id |-> <<"b">>, text |-> T_unit] >>,
     correctAnswer |-> <<"b">>, topic |-> T_quiz, difficulty |-> Easy]
AiSaQuestion ==
    [content |-> T_cell, questionType |-> ShortAnswer,
     correctAnswer |-> T_unit, topic |-> T_quiz, difficulty |-> Hard]

\* objects a response can carry
AiGoodExam == [title |-> T_quiz, questions |-> <<AiMcQuestion, AiSaQuestion>>]
AiOneQuestion == [title |-> T_quiz, questions |-> <<AiMcQuestion>>]
AiNoQuestions == [title |-> T_quiz]
AiNoTitle == [questions |-> <<AiSaQuestion>>]
\* the second question has no content
AiBadQuestion ==
    [title |-> T_quiz,
     questions |-> <<AiMcQuestion,
                     [questionType |-> ShortAnswer, correctAnswer |-> T_unit]>>]
\* one question more than the smallest count a config can ask for
AiManyQuestions ==
    [title |-> T_quiz,
     questions |-> [k \in 1..(MinQuestionCount + 1) |-> AiSaQuestion]]
\* the correct answer of the question is the id of none of its options
AiWrongKey ==
    [title |-> T_quiz,
     questions |-> <<[AiMcQuestion EXCEPT !.correctAnswer = <<"e">>]>>]
AiValues ==
    {EmptyObject, AiGoodExam, AiOneQuestion, AiNoQuestions, AiNoTitle,
     AiBadQuestion, AiManyQuestions, AiWrongKey}

ResponseTexts ==
    {<<>>, <<Prose>>, <<Broken>>,
     <<Prose, ObjectText(AiGoodExam), Prose>>,
     <<ObjectText(AiGoodExam), Prose, ObjectText(AiGoodExam)>>}
    \cup {<<ObjectText(v)>> : v \in AiValues}

BackendThrows == [throws |-> TRUE, responseText |-> <<>>]
BackendOutcomes ==
    {BackendThrows} \cup {[throws |-> FALSE, responseText |-> t] : t \in ResponseTexts}

(***************************************************************************)
(* Initial values of the three parts of the state.                         *)
(***************************************************************************)
GradeChars == {"a", "A", "b", " "}
GradeKeys == SeqsUpTo(GradeChars, MaxKeyLen)
GradeAnswers == SeqsUpTo(GradeChars, MaxAnswerLen)

NoGrade == [done |-> FALSE, value |-> FALSE]
NoOutput == [done |-> FALSE, result |-> Thrown, again |-> FALSE]

GradeIdle ==
    /\ gradeQuestion = [questionType |-> MultipleChoice, correctAnswer |-> <<>>]
    /\ gradeAnswer = <<>>
    /\ gradeResult = NoGrade

GenIdle ==
    /\ genInput = [syllabusContent |-> <<>>, filename |-> <<>>,
                   config |-> CHOOSE c \in ExamConfigs : TRUE,
                   backend |-> BackendThrows]
    /\ genOutput = NoOutput

(***************************************************************************)
(* SpecGrade: isAnswerCorrect applied to every question and answer of the  *)
(* bounded sets.                                                            *)
(***************************************************************************)
GradeCall ==
    /\ ~ gradeResult.done
    /\ gradeResult' = [done |-> TRUE,
                       value |-> isAnswerCorrect(gradeQuestion, gradeAnswer)]
    /\ UNCHANGED <<page, gradeQuestion, gradeAnswer, genInput, genOutput,
                   syllabuses, exams, questions, examAttempts, answers,
                   reqs, issued>>

(***************************************************************************)
(* SpecGen: generateExam applied to every input of the bounded sets.       *)
(***************************************************************************)
GenerateCall ==
    /\ ~ genOutput.done
    /\ genOutput' = [done |-> TRUE,
                     result |-> generateExam(genInput.syllabusContent,
                                             genInput.config,
                                             genInput.filename,
                                             genInput.backend),
                     again |-> FALSE]
    /\ UNCHANGED <<page, gradeQuestion, gradeAnswer, gradeResult, genInput,
                   syllabuses, exams, questions, examAttempts, answers,
                   reqs, issued>>

\* a faulty variant: the second invocation lists the questions backwards
GenerateAgain_reversed ==
    /\ genOutput.done /\ ~ genOutput.again
    /\ LET r == generateExam(genInput.syllabusContent, genInput.config,
                             genInput.filename, genInput.backend)
           qs == r.value.questions
       IN genOutput' =
              [done |-> TRUE, again |-> TRUE,
               result |-> IF "questions" \in DOMAIN r.value
                          THEN [r EXCEPT !.value.questions =
                                   [k \in DOMAIN qs |-> qs[Len(qs) + 1 - k]]]
                          ELSE r]
    /\ UNCHANGED <<page, gradeQuestion, gradeAnswer, gradeResult, genInput,
                   syllabuses, exams, questions, examAttempts, answers,
                   reqs, issued>>

\* a second invocation with the same arguments, the backend behaving as in
\* the first
GenerateAgain ==
    /\ genOutput.done /\ ~ genOutput.again
    /\ genOutput' = [done |-> TRUE,
                     result |-> generateExam(genInput.syllabusContent,
                                             genInput.config,
                                             genInput.filename,
                                             genInput.backend),
                     again |-> TRUE]
    /\ UNCHANGED <<page, gradeQuestion, gradeAnswer, gradeResult, genInput,
                   syllabuses, exams, questions, examAttempts, answers,
                   reqs, issued>>

(***************************************************************************)
(* The storage layer (storage.ts, DatabaseStorage) over the tables of      *)
(* shared/schema.ts. A table is the sequence of its rows; a row's id is    *)
(* its index (serial). A nullable column holds <<>> for NULL and <<v>> for *)
(* the value v.                                                            *)
(***************************************************************************)
Null == <<>>
Some(v) == <<v>>

\* Serial ids are never reused, so a deleted row keeps its place in the table
\* and carries the field "deleted"; no query selects it.
Live(row) == "deleted" \notin DOMAIN row
Deleted(row) ==
    [f \in DOMAIN row \cup {"deleted"} |-> IF f = "deleted" THEN TRUE ELSE row[f]]

\* DELETE FROM a table: the rows whose ids are in ids become deleted rows
deleteRows(table, ids) ==
    [k \in DOMAIN table |-> IF k \in ids /\ Live(table[k]) THEN Deleted(table[k])
                            ELSE table[k]]

getSyllabus(id) ==
    IF id \in DOMAIN syllabuses /\ Live(syllabuses[id]) THEN Some(syllabuses[id]) ELSE Null
getExam(id) ==
    IF id \in DOMAIN exams /\ Live(exams[id]) THEN Some(exams[id]) ELSE Null
getExamAttempt(id) ==
    IF id \in DOMAIN examAttempts /\ Live(examAttempts[id])
    THEN Some(examAttempts[id]) ELSE Null

\* the ids of the rows selected, in place of the rows
getExamsBySyllabusId(syllabusId) ==
    {e \in DOMAIN exams : Live(exams[e]) /\ exams[e].syllabusId = syllabusId}
getQuestionsByExamId(examId) ==
    {q \in DOMAIN questions : Live(questions[q]) /\ questions[q].examId = examId}
getAnswersByAttemptId(attemptId) ==
    {a \in DOMAIN answers : Live(answers[a]) /\ answers[a].attemptId = attemptId}

\* a faulty variant: the update also rewrites max_score
completeExamAttempt_rescaled(id, score) ==
    [examAttempts EXCEPT ![id].completedAt = TRUE, ![id].score = Some(score),
                         ![id].maxScore = score]

\* UPDATE exam_attempts SET completed_at = now(), score = $2 WHERE id = $1
completeExamAttempt(id, score) ==
    IF Live(examAttempts[id])
    THEN [examAttempts EXCEPT ![id].completedAt = TRUE, ![id].score = Some(score)]
    ELSE examAttempts

(***************************************************************************)
(* The routes (routes.ts). Node runs one handler at a time and switches    *)
(* handlers at each await, so every action below is one storage call       *)
(* together with the synchronous code that follows it up to the next       *)
(* await. reqs[c] is the handler serving connection c.                     *)
(***************************************************************************)
NoPending == [answers |-> {}, examAttempts |-> {}, questions |-> {}, exams |-> {}]

\* the rows of a table that an open transaction of another handler has deleted
LockedBy(c, table) ==
    UNION {reqs[d].pending[table] :
              d \in {e \in DOMAIN reqs : e # c /\ reqs[e].pc = "transaction"}}

Idle == [kind |-> "none", pc |-> "idle"]
Done(kind, response) == [kind |-> kind, pc |-> "done", response |-> response]

\* a faulty variant: a missing row is reported as a validation error
NotFound_asValidation == [status |-> 400, error |-> "validation"]

NotFound == [status |-> 404, error |-> "not found"]
AlreadyCompleted == [status |-> 400, error |-> "already completed"]
ZodError == [status |-> 400, error |-> "validation"]
QuestionNotInExam(qid) == [status |-> 400, error |-> "question not in exam", questionId |-> qid]
ServerError == [status |-> 500, error |-> "failed"]

CanReceive(c, limit) == reqs[c].pc \in {"idle", "done"} /\ issued < limit

\* examConfigSchema.parse(req.body)
validConfig(body) ==
    /\ body.type \in QuestionTypes
    /\ body.questionCount >= MinQuestionCount
    /\ body.questionCount <= MaxQuestionCount
    /\ body.difficulty \in Difficulties

\* insertExamSchema.parse: title is a NOT NULL text column
validExamData(generatedExam) == "title" \in DOMAIN generatedExam

\* insertQuestionSchema.parse: content, question_type, correct_answer NOT NULL
validQuestion(questionData) ==
    {"content", "questionType", "correctAnswer"} \subseteq DOMAIN questionData

questionRow(examId, questionData) ==
    [examId |-> examId,
     content |-> questionData.content,
     questionType |-> questionData.questionType,
     options |-> IF questionData.questionType = MultipleChoice
                    /\ "options" \in DOMAIN questionData
                 THEN Some(questionData.options) ELSE Null,
     correctAnswer |-> questionData.correctAnswer,
     topic |-> IF "topic" \in DOMAIN questionData
               THEN Some(questionData.topic) ELSE Null,
     difficulty |-> IF "difficulty" \in DOMAIN questionData
                    THEN Some(questionData.difficulty) ELSE Null]

(* POST /api/syllabuses/:id/exams *)
GenerateBegin(c, limit, id, body) ==
    /\ CanReceive(c, limit)
    /\ issued' = issued + 1
    /\ reqs' = [reqs EXCEPT ![c] =
           IF getSyllabus(id) = Null THEN Done("generate", NotFound)
           ELSE IF ~ validConfig(body) THEN Done("generate", ZodError)
           ELSE [kind |-> "generate", pc |-> "generateExam",
                 syllabus |-> getSyllabus(id)[1], syllabusId |-> id,
                 config |-> body]]
    /\ UNCHANGED <<page, gradeVars, genVars, dbVars>>

GenerateCreateExam(c, backend) ==
    /\ reqs[c].pc = "generateExam"
    /\ LET r == reqs[c]
           generated == generateExam(r.syllabus.content, r.config,
                                     r.syllabus.originalName, backend)
       IN IF generated.threw
          THEN /\ reqs' = [reqs EXCEPT ![c] = Done("generate", ServerError)]
               /\ UNCHANGED exams
          ELSE IF ~ validExamData(generated.value)
          THEN /\ reqs' = [reqs EXCEPT ![c] = Done("generate", ZodError)]
               /\ UNCHANGED exams
          ELSE /\ exams' = Append(exams,
                      [title |-> generated.value.title,
                       syllabusId |-> r.syllabusId,
                       type |-> r.config.type,
                       difficulty |-> r.config.difficulty,
                       questionCount |-> r.config.questionCount,
                       timeLimit |-> r.config.timeLimit,
                       topics |-> r.config.topics])
               /\ reqs' = [reqs EXCEPT ![c] =
                      [kind |-> "generate", pc |-> "createQuestion",
                       examId |-> Len(exams) + 1,
                       generatedExam |-> generated.value, next |-> 1]]
    /\ UNCHANGED <<page, gradeVars, genVars, syllabuses, questions, examAttempts,
                   answers, issued>>

GenerateCreateQuestion(c) ==
    /\ reqs[c].pc = "createQuestion"
    /\ LET r == reqs[c]
       IN IF "questions" \notin DOMAIN r.generatedExam
          THEN \* for (... of undefined): TypeError
               /\ reqs' = [reqs EXCEPT ![c] = Done("generate", ServerError)]
               /\ UNCHANGED questions
          ELSE /\ r.next <= Len(r.generatedExam.questions)
               /\ IF ~ validQuestion(r.generatedExam.questions[r.next])
                  THEN /\ reqs' = [reqs EXCEPT ![c] = Done("generate", ZodError)]
                       /\ UNCHANGED questions
                  ELSE /\ questions' = Append(questions,
                              questionRow(r.examId, r.generatedExam.questions[r.next]))
                       /\ reqs' = [reqs EXCEPT ![c].next = r.next + 1]
    /\ UNCHANGED <<page, gradeVars, genVars, syllabuses, exams, examAttempts,
                   answers, issued>>

GenerateRespond(c) ==
    /\ reqs[c].pc = "createQuestion"
    /\ "questions" \in DOMAIN reqs[c].generatedExam
    /\ reqs[c].next > Len(reqs[c].generatedExam.questions)
    /\ reqs' = [reqs EXCEPT ![c] =
           Done("generate", [status |-> 201, examId |-> reqs[c].examId,
                             questions |-> getQuestionsByExamId(reqs[c].examId)])]
    /\ UNCHANGED <<page, gradeVars, genVars, dbVars, issued>>

(* POST /api/exams/:id/attempts *)
StartBegin(c, limit, id) ==
    /\ CanReceive(c, limit)
    /\ issued' = issued + 1
    /\ reqs' = [reqs EXCEPT ![c] =
           IF getExam(id) = Null THEN Done("start", NotFound)
           ELSE [kind |-> "start", pc |-> "getQuestions", examId |-> id]]
    /\ UNCHANGED <<page, gradeVars, genVars, dbVars>>

StartGetQuestions(c) ==
    /\ reqs[c].kind = "start" /\ reqs[c].pc = "getQuestions"
    /\ reqs' = [reqs EXCEPT ![c] =
           [kind |-> "start", pc |-> "createExamAttempt",
            examId |-> reqs[c].examId,
            maxScore |-> Cardinality(getQuestionsByExamId(reqs[c].examId))]]
    /\ UNCHANGED <<page, gradeVars, genVars, dbVars, issued>>

StartCreateAttempt(c) ==
    /\ reqs[c].pc = "createExamAttempt"
    /\ examAttempts' = Append(examAttempts,
           [examId |-> reqs[c].examId, maxScore |-> reqs[c].maxScore,
            score |-> Null, completedAt |-> FALSE])
    /\ reqs' = [reqs EXCEPT ![c] =
           Done("start", [status |-> 201, attemptId |-> Len(examAttempts) + 1,
                          maxScore |-> reqs[c].maxScore])]
    /\ UNCHANGED <<page, gradeVars, genVars, syllabuses, exams, questions, answers,
                   issued>>

(* POST /api/attempts/:id/answers *)
\* body: [valid |-> the body is an array of {questionId, answer}, answers |-> it].
\* The body is read only after the attempt was found open, so the handlers
\* that stop before that are enumerated with a single body.
SubmitBegin(c, limit, id, bodies) ==
    /\ CanReceive(c, limit)
    /\ issued' = issued + 1
    /\ IF getExamAttempt(id) = Null
       THEN reqs' = [reqs EXCEPT ![c] = Done("submit", NotFound)]
       ELSE IF getExamAttempt(id)[1].completedAt
       THEN reqs' = [reqs EXCEPT ![c] = Done("submit", AlreadyCompleted)]
       ELSE \E body \in bodies :
               reqs' = [reqs EXCEPT ![c] =
                   IF ~ body.valid THEN Done("submit", ZodError)
                   ELSE [kind |-> "submit", pc |-> "getQuestions",
                         attemptId |-> id, attempt |-> getExamAttempt(id)[1],
                         body |-> body.answers]]
    /\ UNCHANGED <<page, gradeVars, genVars, dbVars>>

SubmitGetQuestions(c) ==
    /\ reqs[c].kind = "submit" /\ reqs[c].pc = "getQuestions"
    /\ reqs' = [reqs EXCEPT ![c] =
           [kind |-> "submit", pc |-> "processAnswer",
            attemptId |-> reqs[c].attemptId, attempt |-> reqs[c].attempt,
            body |-> reqs[c].body,
            questionsMap |-> [q \in getQuestionsByExamId(reqs[c].attempt.examId)
                                 |-> questions[q]],
            score |-> 0, next |-> 1]]
    /\ UNCHANGED <<page, gradeVars, genVars, dbVars, issued>>

\* a faulty variant: every stored answer counts
scoreAfter_always(score, isCorrect) == score + 1

\* if (isCorrect) { score++; }
scoreAfter(score, isCorrect) == IF isCorrect THEN score + 1 ELSE score

\* one iteration of the loop over the batch
SubmitProcessAnswer(c) ==
    /\ reqs[c].pc = "processAnswer"
    /\ reqs[c].next <= Len(reqs[c].body)
    /\ LET r == reqs[c]
           answerData == r.body[r.next]
       IN IF answerData.questionId \notin DOMAIN r.questionsMap
          THEN /\ reqs' = [reqs EXCEPT ![c] =
                      Done("submit", QuestionNotInExam(answerData.questionId))]
               /\ UNCHANGED answers
          ELSE LET isCorrect == isAnswerCorrect(r.questionsMap[answerData.questionId],
                                                answerData.answer)
               IN /\ answers' = Append(answers,
                         [attemptId |-> r.attemptId,
                          questionId |-> answerData.questionId,
                          answer |-> answerData.answer,
                          isCorrect |-> isCorrect])
                  /\ reqs' = [reqs EXCEPT ![c].next = r.next + 1,
                                          ![c].score = scoreAfter(r.score, isCorrect)]
    /\ UNCHANGED <<page, gradeVars, genVars, syllabuses, exams, questions,
                   examAttempts, issued>>

\* the UPDATE waits while an open transaction holds the row
SubmitComplete(c) ==
    /\ reqs[c].pc = "processAnswer"
    /\ reqs[c].next > Len(reqs[c].body)
    /\ reqs[c].attemptId \notin LockedBy(c, "examAttempts")
    /\ examAttempts' = completeExamAttempt(reqs[c].attemptId, reqs[c].score)
    /\ reqs' = [reqs EXCEPT ![c] =
           [kind |-> "submit", pc |-> "getAnswers",
            attemptId |-> reqs[c].attemptId, attempt |-> reqs[c].attempt,
            body |-> reqs[c].body, questionsMap |-> reqs[c].questionsMap,
            completedAttempt |-> examAttempts'[reqs[c].attemptId],
            score |-> reqs[c].score]]
    /\ UNCHANGED <<page, gradeVars, genVars, syllabuses, exams, questions, answers,
                   issued>>

SubmitRespond(c) ==
    /\ reqs[c].pc = "getAnswers"
    /\ reqs' = [reqs EXCEPT ![c] =
           Done("submit", [status |-> 200,
                           attemptId |-> reqs[c].attemptId,
                           attempt |-> reqs[c].completedAttempt,
                           answers |-> getAnswersByAttemptId(reqs[c].attemptId),
                           score |-> reqs[c].score,
                           maxScore |-> reqs[c].attempt.maxScore])]
    /\ UNCHANGED <<page, gradeVars, genVars, dbVars, issued>>

(***************************************************************************)
(* DELETE /api/syllabuses/:id and DatabaseStorage.deleteSyllabus.          *)
(*                                                                         *)
(* The related exams are read before the transaction opens. Inside the     *)
(* transaction every statement is one await; under READ COMMITTED each     *)
(* statement sees the rows committed so far, and the deletions become      *)
(* visible to the other handlers at commit. r.pending holds the ids the    *)
(* open transaction has deleted, per table.                                *)
(***************************************************************************)
DeleteBegin(c, limit, id) ==
    /\ CanReceive(c, limit)
    /\ issued' = issued + 1
    /\ reqs' = [reqs EXCEPT ![c] =
           IF getSyllabus(id) = Null THEN Done("delete", NotFound)
           ELSE [kind |-> "delete", pc |-> "unlink", syllabusId |-> id]]
    /\ UNCHANGED <<page, gradeVars, genVars, dbVars>>

\* fs.unlink: the deletion goes on whether or not the file could be removed
DeleteUnlink(c) ==
    /\ reqs[c].pc = "unlink"
    /\ reqs' = [reqs EXCEPT ![c].pc = "getExams"]
    /\ UNCHANGED <<page, gradeVars, genVars, dbVars, issued>>

\* const relatedExams = await this.getExamsBySyllabusId(id)
DeleteGetExams(c) ==
    /\ reqs[c].pc = "getExams"
    /\ reqs' = [reqs EXCEPT ![c] =
           [kind |-> "delete", pc |-> "transaction", stage |-> "selectAttempts",
            syllabusId |-> reqs[c].syllabusId,
            relatedExams |-> getExamsBySyllabusId(reqs[c].syllabusId),
            exam |-> 0, attempts |-> {}, pending |-> NoPending]]
    /\ UNCHANGED <<page, gradeVars, genVars, dbVars, issued>>

\* the next exam of the loop and the SELECT of its attempts
TxSelectAttempts(c) ==
    /\ reqs[c].pc = "transaction" /\ reqs[c].stage = "selectAttempts"
    /\ reqs[c].relatedExams # {}
    /\ LET r == reqs[c]
           exam == CHOOSE e \in r.relatedExams : \A o \in r.relatedExams : e >= o
       IN reqs' = [reqs EXCEPT ![c].stage = "deleteAnswers",
                               ![c].exam = exam,
                               ![c].relatedExams = r.relatedExams \ {exam},
                               ![c].attempts =
                                   {a \in DOMAIN examAttempts :
                                       /\ Live(examAttempts[a])
                                       /\ a \notin r.pending.examAttempts
                                       /\ examAttempts[a].examId = exam}]
    /\ UNCHANGED <<page, gradeVars, genVars, dbVars, issued>>

\* DELETE FROM answers WHERE attempt_id = the next attempt selected
TxDeleteAnswers(c) ==
    /\ reqs[c].pc = "transaction" /\ reqs[c].stage = "deleteAnswers"
    /\ reqs[c].attempts # {}
    /\ LET r == reqs[c]
           attemptObj == CHOOSE a \in r.attempts : \A o \in r.attempts : a <= o
           rows == getAnswersByAttemptId(attemptObj)
       IN /\ rows \cap LockedBy(c, "answers") = {}
          /\ reqs' = [reqs EXCEPT ![c].attempts = r.attempts \ {attemptObj},
                                  ![c].pending.answers = r.pending.answers \cup rows]
    /\ UNCHANGED <<page, gradeVars, genVars, dbVars, issued>>

\* DELETE FROM exam_attempts WHERE exam_id = exam.id
TxDeleteAttempts(c) ==
    /\ reqs[c].pc = "transaction" /\ reqs[c].stage = "deleteAnswers"
    /\ reqs[c].attempts = {}
    /\ LET r == reqs[c]
           rows == {a \in DOMAIN examAttempts :
                       Live(examAttempts[a]) /\ examAttempts[a].examId = r.exam}
       IN /\ rows \cap LockedBy(c, "examAttempts") = {}
          /\ reqs' = [reqs EXCEPT ![c].stage = "deleteQuestions",
                                  ![c].pending.examAttempts =
                                      r.pending.examAttempts \cup rows]
    /\ UNCHANGED <<page, gradeVars, genVars, dbVars, issued>>

\* DELETE FROM questions WHERE exam_id = exam.id
TxDeleteQuestions(c) ==
    /\ reqs[c].pc = "transaction" /\ reqs[c].stage = "deleteQuestions"
    /\ LET r == reqs[c]
           rows == getQuestionsByExamId(r.exam)
       IN /\ rows \cap LockedBy(c, "questions") = {}
          /\ reqs' = [reqs EXCEPT ![c].stage = "selectAttempts",
                                  ![c].pending.questions = r.pending.questions \cup rows]
    /\ UNCHANGED <<page, gradeVars, genVars, dbVars, issued>>

\* DELETE FROM exams WHERE syllabus_id = id, once the loop is over
TxDeleteExams(c) ==
    /\ reqs[c].pc = "transaction" /\ reqs[c].stage = "selectAttempts"
    /\ reqs[c].relatedExams = {}
    /\ LET r == reqs[c]
           rows == getExamsBySyllabusId(r.syllabusId)
       IN /\ rows \cap LockedBy(c, "exams") = {}
          /\ reqs' = [reqs EXCEPT ![c].stage = "deleteSyllabus",
                                  ![c].pending.exams = r.pending.exams \cup rows]
    /\ UNCHANGED <<page, gradeVars, genVars, dbVars, issued>>

\* DELETE FROM syllabuses WHERE id = id, the commit, and the response
TxDeleteSyllabus(c) ==
    /\ reqs[c].pc = "transaction" /\ reqs[c].stage = "deleteSyllabus"
    /\ LET r == reqs[c]
           deleted == getSyllabus(r.syllabusId) # Null
       IN /\ syllabuses' = deleteRows(syllabuses, {r.syllabusId})
          /\ exams' = deleteRows(exams, r.pending.exams)
          /\ questions' = deleteRows(questions, r.pending.questions)
          /\ examAttempts' = deleteRows(examAttempts, r.pending.examAttempts)
          /\ answers' = deleteRows(answers, r.pending.answers)
          /\ reqs' = [reqs EXCEPT ![c] =
                 Done("delete", IF deleted
                                THEN [status |-> 200, syllabusId |-> r.syllabusId]
                                ELSE ServerError)]
    /\ UNCHANGED <<page, gradeVars, genVars, issued>>

(***************************************************************************)
(* Inputs of the routes and the two server specifications.                 *)
(***************************************************************************)
NumConnections == 2
MaxRequests == 4
MaxSeqRequests == 3
MaxBatch == 1
MaxSeqBatch == 2
MaxQuestionId == 2
MaxId == 2

\* 'unit'
A_unit ==
    <<"u","n","i","t">>
SubmittedAnswers == {<<"B">>, A_unit}

AnswerData == [questionId : 1..MaxQuestionId, answer : SubmittedAnswers]
Bodies(n) ==
    {[valid |-> TRUE, answers |-> b] : b \in SeqsUpTo(AnswerData, n)}
    \cup {[valid |-> FALSE, answers |-> <<>>]}

ConfigBodies ==
    {[type |-> MultipleChoice, questionCount |-> MinQuestionCount,
      difficulty |-> Easy, topics |-> <<>>, timeLimit |-> <<>>],
     [type |-> ShortAnswer, questionCount |-> MinQuestionCount,
      difficulty |-> Mixed, topics |-> <<>>, timeLimit |-> <<>>],
     [type |-> MultipleChoice, questionCount |-> MinQuestionCount - 1,
      difficulty |-> Easy, topics |-> <<>>, timeLimit |-> <<>>]}

Responds(v) == [throws |-> FALSE, responseText |-> <<ObjectText(v)>>]
ServerBackends ==
    {BackendThrows, [throws |-> FALSE, responseText |-> <<Prose>>],
     Responds(AiGoodExam), Responds(AiOneQuestion), Responds(AiNoQuestions),
     Responds(AiBadQuestion), Responds(AiWrongKey)}

\* the inputs of the concurrent specification
ConcurrentConfigBodies ==
    {body \in ConfigBodies : body.type = MultipleChoice}
ConcurrentBackends ==
    {[throws |-> FALSE, responseText |-> <<Prose>>], Responds(AiGoodExam)}

\* no page of the client is open
NoPage == [name |-> "none"]

\* the database after one upload
DatabaseInit ==
    /\ syllabuses = << [content |-> join(<<L_course, L_numbered>>, <<"\n">>),
                        originalName |-> F_notes] >>
    /\ exams = <<>>
    /\ questions = <<>>
    /\ examAttempts = <<>>
    /\ answers = <<>>
    /\ reqs = [c \in 1..NumConnections |-> Idle]
    /\ issued = 0

ServerInit == DatabaseInit /\ page = NoPage

ServerNext(Conns, limit, batch, configs, backends) ==
    \E c \in Conns :
        \/ \E id \in 1..MaxId, body \in configs : GenerateBegin(c, limit, id, body)
        \/ \E backend \in backends : GenerateCreateExam(c, backend)
        \/ GenerateCreateQuestion(c)
        \/ GenerateRespond(c)
        \/ \E id \in 1..MaxId : StartBegin(c, limit, id)
        \/ StartGetQuestions(c)
        \/ StartCreateAttempt(c)
        \/ \E id \in 1..MaxId : SubmitBegin(c, limit, id, Bodies(batch))
        \/ SubmitGetQuestions(c)
        \/ SubmitProcessAnswer(c)
        \/ SubmitComplete(c)
        \/ SubmitRespond(c)

\* concurrent requests on NumConnections connections
Init == GradeIdle /\ GenIdle /\ ServerInit
Next ==
    ServerNext(1..NumConnections, MaxRequests, MaxBatch,
               ConcurrentConfigBodies, ConcurrentBackends)
Spec == Init /\ [][Next]_vars

\* one request at a time
SeqNext ==
    ServerNext({1}, MaxSeqRequests, MaxSeqBatch, ConfigBodies, ServerBackends)
SpecSeq == Init /\ [][SeqNext]_vars

\* isAnswerCorrect on its own
GradeInit ==
    /\ gradeQuestion \in [questionType : QuestionTypes \cup {"essay"},
                          correctAnswer : GradeKeys]
    /\ gradeAnswer \in GradeAnswers
    /\ gradeResult = NoGrade
    /\ GenIdle /\ ServerInit
SpecGrade == GradeInit /\ [][GradeCall]_vars

\* generateExam on its own
GenInit ==
    /\ genInput \in [syllabusContent : SyllabusContents, filename : Filenames,
                     config : ExamConfigs, backend : BackendOutcomes]
    /\ genOutput = NoOutput
    /\ GradeIdle /\ ServerInit
GenNext == GenerateCall \/ GenerateAgain
SpecGen == GenInit /\ [][GenNext]_vars

\* extractTopics on its own
TopicValues ==
    {EmptyObject, AiGoodExam}
    \cup {[topics |-> v] :
            v \in {Json("null", <<>>), Json("number", <<[number |-> 0]>>),
                   Json("number", <<[number |-> 7]>>),
                   Json("array", <<>>), Json("object", <<>>),
                   Json("array", <<[name |-> "Cells", importance |-> 9]>>),
                   Json("array", <<[name |-> "Cells", importance |-> 9],
                                   [name |-> "Tissues", importance |-> 4]>>)}}

TopicBackends ==
    {BackendThrows}
    \cup {[throws |-> FALSE, responseText |-> t] :
            t \in {<<>>, <<Prose>>, <<Broken>>}
                  \cup {<<ObjectText(v)>> : v \in TopicValues}
                  \cup {<<Prose, ObjectText(v), Prose>> : v \in TopicValues}}

ExtractTopicsCall ==
    /\ ~ genOutput.done
    /\ genOutput' = [done |-> TRUE,
                     result |-> extractTopics(genInput.syllabusContent,
                                              genInput.backend),
                     again |-> FALSE]
    /\ UNCHANGED <<page, gradeQuestion, gradeAnswer, gradeResult, genInput,
                   syllabuses, exams, questions, examAttempts, answers,
                   reqs, issued>>

TopicsInit ==
    /\ genInput \in [syllabusContent : SyllabusContents, filename : {F_notes},
                     config : {CHOOSE c \in ExamConfigs : TRUE},
                     backend : TopicBackends]
    /\ genOutput = NoOutput
    /\ GradeIdle /\ ServerInit
SpecTopics == TopicsInit /\ [][ExtractTopicsCall]_vars

\* generateExam with an OpenAI key configured or not: without a key every
\* call of the client throws
FallbackInit ==
    /\ genInput \in
           [syllabusContent : SyllabusContents, filename : {F_notes},
            config : {CHOOSE c \in ExamConfigs : TRUE},
            backend : {BackendThrows, Responds(AiOneQuestion)},
            openai : {[configured |-> FALSE, throws |-> TRUE, content |-> <<>>],
                      [configured |-> TRUE, throws |-> TRUE, content |-> <<>>],
                      [configured |-> TRUE, throws |-> FALSE,
                       content |-> <<ObjectText(AiGoodExam)>>]}]
    /\ genOutput = NoOutput
    /\ GradeIdle /\ ServerInit
SpecFallback == FallbackInit /\ [][GenNext]_vars

\* generateExam on syllabus texts that reach the length the prompt cuts them
\* to: syllabusContent.substring(0, 15000)
TruncationLength == 15000

\* TruncationLength characters: padding, a line feed and the first letters
\* of the line 'Course: Bio 1'
PrefixText ==
    LET head == <<"\n">> \o SubSeq(L_course, 1, 9)
    IN [i \in 1..(TruncationLength - Len(head)) |-> "x"] \o head

\* texts with the same first TruncationLength characters
TruncContents ==
    {PrefixText \o rest :
        rest \in {<<>>, SubSeq(L_course, 10, Len(L_course)),
                  SubSeq(L_course, 10, Len(L_course)) \o <<"\n">> \o L_numbered}}

TruncInit ==
    /\ genInput \in [syllabusContent : TruncContents, filename : {F_notes},
                     config : {c \in ExamConfigs :
                                  /\ c.questionCount = MinQuestionCount
                                  /\ c.difficulty = Easy},
                     backend : BackendOutcomes]
    /\ genOutput = NoOutput
    /\ GradeIdle /\ ServerInit
SpecTrunc == TruncInit /\ [][GenNext]_vars

(***************************************************************************)
(* The take-exam page (TakeExamSimple). The requests of the page are       *)
(* answered by the network with a success or a failure. An effect runs     *)
(* right after the render that changed one of its dependencies, so each    *)
(* action below ends with the two effects of the page.                     *)
(***************************************************************************)
SecondsPerMinute == 60
MaxTimeLimit == 1
MaxSubmits == 2

\* useEffect(..., [examId, attemptId, isSubmitting]): start the attempt
startAttemptEffect(old, new) ==
    IF /\ (new.attemptId # old.attemptId \/ new.isSubmitting # old.isSubmitting)
       /\ new.attemptId = Null /\ ~ new.isSubmitting
    THEN [new EXCEPT !.starting = TRUE]
    ELSE new

\* useEffect(..., [timeRemaining, showResults]): the cleanup clears the
\* interval and the body sets a new one while the exam is on
timerEffect(old, new) ==
    IF new.timeRemaining # old.timeRemaining \/ new.showResults # old.showResults
    THEN [new EXCEPT !.ticking = (new.timeRemaining # Null /\ ~ new.showResults)]
    ELSE new

\* the component just mounted: the exam query and the first start request
\* are on their way
TakeExamPage ==
    [name |-> "take-exam", examData |-> Null, timeRemaining |-> Null,
     attemptId |-> Null, isSubmitting |-> FALSE, showResults |-> FALSE,
     showSubmitDialog |-> FALSE, showTimeUpDialog |-> FALSE,
     ticking |-> FALSE, starting |-> TRUE, startFailed |-> FALSE,
     submitting |-> 0, submitRequests |-> 0, submitFailed |-> FALSE]

\* the page after an event
Shown(new) ==
    /\ page' = timerEffect(page, startAttemptEffect(page, new))
    /\ UNCHANGED <<gradeVars, genVars, dbVars, reqs, issued>>

\* GET /api/exams/:id answers; timeLimit is Null or Some(minutes)
ExamLoaded(timeLimit) ==
    /\ page.name = "take-exam" /\ page.examData = Null
    /\ Shown([page EXCEPT
           !.examData = Some([timeLimit |-> timeLimit]),
           !.timeRemaining = IF timeLimit # Null
                             THEN Some(timeLimit[1] * SecondsPerMinute)
                             ELSE page.timeRemaining])

\* startAttemptMutation: onSuccess
StartSucceeds ==
    /\ page.name = "take-exam" /\ page.starting
    /\ Shown([page EXCEPT !.starting = FALSE, !.attemptId = Some(1)])

\* startAttemptMutation: onError shows a toast
StartFails ==
    /\ page.name = "take-exam" /\ page.starting
    /\ Shown([page EXCEPT !.starting = FALSE, !.startFailed = TRUE])

\* the interval fires: setTimeRemaining(prev => ...)
Tick ==
    /\ page.name = "take-exam" /\ page.ticking
    /\ LET prev == page.timeRemaining[1]
       IN Shown(IF prev <= 0
                THEN [page EXCEPT !.ticking = FALSE, !.showTimeUpDialog = TRUE,
                                  !.timeRemaining = Some(0)]
                ELSE [page EXCEPT !.timeRemaining = Some(prev - 1)])

\* the Submit Exam button of the question view
handleSubmitExam ==
    /\ page.name = "take-exam" /\ page.examData # Null /\ ~ page.showResults
    /\ ~ page.showSubmitDialog /\ ~ page.showTimeUpDialog
    /\ Shown([page EXCEPT !.showSubmitDialog = TRUE])

\* Cancel, Escape: onOpenChange(false) of the confirmation dialog
cancelSubmit ==
    /\ page.name = "take-exam" /\ page.showSubmitDialog
    /\ Shown([page EXCEPT !.showSubmitDialog = FALSE])

\* submitAnswersMutation.mutate(): without an attempt id mutationFn returns
\* null, no request is sent and onSuccess(null) changes nothing
submitAnswers(p) ==
    IF p.attemptId = Null THEN p
    ELSE [p EXCEPT !.submitting = p.submitting + 1,
                   !.submitRequests = p.submitRequests + 1]

confirmSubmit ==
    /\ page.name = "take-exam" /\ page.showSubmitDialog
    /\ page.submitRequests < MaxSubmits
    /\ Shown(submitAnswers([page EXCEPT !.showSubmitDialog = FALSE,
                                        !.isSubmitting = TRUE]))

\* the Continue button of the time-up dialog
handleTimeUp ==
    /\ page.name = "take-exam" /\ page.showTimeUpDialog
    /\ page.submitRequests < MaxSubmits
    /\ Shown(submitAnswers([page EXCEPT !.showTimeUpDialog = FALSE,
                                        !.isSubmitting = TRUE]))

\* Escape, the close button, a click outside: onOpenChange(false) of the
\* time-up dialog
dismissTimeUp ==
    /\ page.name = "take-exam" /\ page.showTimeUpDialog
    /\ Shown([page EXCEPT !.showTimeUpDialog = FALSE])

\* submitAnswersMutation: onSuccess with the results
SubmitSucceeds ==
    /\ page.name = "take-exam" /\ page.submitting > 0
    /\ Shown([page EXCEPT !.submitting = page.submitting - 1,
                          !.isSubmitting = FALSE, !.showResults = TRUE])

\* submitAnswersMutation: onError resets isSubmitting and shows a toast
SubmitFails ==
    /\ page.name = "take-exam" /\ page.submitting > 0
    /\ Shown([page EXCEPT !.submitting = page.submitting - 1,
                          !.isSubmitting = FALSE, !.submitFailed = TRUE])

TimeLimits == {Null} \cup {Some(m) : m \in 1..MaxTimeLimit}

TakeInit ==
    /\ GradeIdle /\ GenIdle /\ DatabaseInit
    /\ page = TakeExamPage
TakeNext ==
    \/ \E timeLimit \in TimeLimits : ExamLoaded(timeLimit)
    \/ StartSucceeds
    \/ StartFails
    \/ Tick
    \/ handleSubmitExam
    \/ cancelSubmit
    \/ confirmSubmit
    \/ handleTimeUp
    \/ dismissTimeUp
    \/ SubmitSucceeds
    \/ SubmitFails
SpecTake == TakeInit /\ [][TakeNext]_vars

\* The browser fires the interval and the network answers every request;
\* a user who is shown the time-up dialog answers it one way or the other.
\* Nothing makes the user press Submit Exam.
TakeFairness ==
    /\ WF_vars(\E timeLimit \in TimeLimits : ExamLoaded(timeLimit))
    /\ WF_vars(StartSucceeds \/ StartFails)
    /\ WF_vars(Tick)
    /\ WF_vars(SubmitSucceeds \/ SubmitFails)
    /\ WF_vars(handleTimeUp \/ dismissTimeUp)
    /\ WF_vars(confirmSubmit \/ cancelSubmit)
SpecTakeFair == SpecTake /\ TakeFairness

(***************************************************************************)
(* The Generated Exams page (GeneratedExams). page.stored is the number of *)
(* exams the server holds for the syllabus; page.exams is the data of the  *)
(* exams query (the length of the list), Null while it is undefined.       *)
(* React runs an effect right after the render that changed one of its     *)
(* dependencies, so each action below ends with the effect.                *)
(***************************************************************************)
MaxGenerations == 5
MaxStoredAtOpen == 1

\* the component just mounted, the exams query on its way
GeneratedExamsPage(examConfig, stored) ==
    [name |-> "exams", examConfig |-> examConfig,
     exams |-> Null, isLoadingExams |-> TRUE, isGenerating |-> FALSE,
     generating |-> 0, refetching |-> FALSE, stored |-> stored,
     storedAtOpen |-> stored,
     autoRequests |-> 0, userRequests |-> 0, failed |-> 0]

\* generateExamMutation.mutate(): mutationFn sets isGenerating and posts
mutate(p, by) ==
    [p EXCEPT !.isGenerating = TRUE, !.generating = p.generating + 1,
              ![by] = p[by] + 1]

\* useEffect(..., [exams, isGenerating, isLoadingExams])
autoGenerateEffect(p) ==
    IF p.exams = Some(0) /\ ~ p.isGenerating /\ ~ p.isLoadingExams
    THEN mutate(p, "autoRequests")
    ELSE p

\* the page after an event, as long as the requests stay within the bound
Rendered(p) ==
    /\ autoGenerateEffect(p).autoRequests + autoGenerateEffect(p).userRequests
           <= MaxGenerations
    /\ page' = autoGenerateEffect(p)
    /\ UNCHANGED <<gradeVars, genVars, dbVars, reqs, issued>>

\* GET /api/syllabuses/:id/exams answers for the first time
ExamsLoaded ==
    /\ page.name = "exams" /\ page.isLoadingExams
    /\ Rendered([page EXCEPT !.exams = Some(page.stored), !.isLoadingExams = FALSE])

\* onSuccess: the exam is stored; setIsGenerating(false) and refetchExams()
GenerateSucceeds ==
    /\ page.name = "exams" /\ page.generating > 0
    /\ Rendered([page EXCEPT !.generating = page.generating - 1,
                             !.stored = page.stored + 1,
                             !.isGenerating = FALSE,
                             !.refetching = TRUE])

\* onError: setIsGenerating(false) and a toast
GenerateFails ==
    /\ page.name = "exams" /\ page.generating > 0
    /\ Rendered([page EXCEPT !.generating = page.generating - 1,
                             !.isGenerating = FALSE,
                             !.failed = page.failed + 1])

\* the refetch started by onSuccess answers
RefetchResolves ==
    /\ page.name = "exams" /\ page.refetching
    /\ Rendered([page EXCEPT !.exams = Some(page.stored), !.refetching = FALSE])

\* the button is rendered with the exam cards and disabled while generating
handleGenerateMore ==
    /\ page.name = "exams"
    /\ ~ page.isGenerating /\ ~ page.isLoadingExams
    /\ page.exams # Null /\ page.exams # Some(0)
    /\ Rendered(mutate(page, "userRequests"))

(***************************************************************************)
(* The Configure page (configure.tsx) and the exam configuration kept by   *)
(* ExamProvider (exam-context.tsx). The provider wraps every page, so      *)
(* page.examConfig outlives the page; isTimeLimit is state of the          *)
(* Configure component and starts anew each time the page is mounted.      *)
(***************************************************************************)
DefaultQuestionCount == 20
DefaultTimeLimit == 60

\* useState<ExamConfig>({...}): the initial object has no timeLimit key
InitialExamConfig ==
    [type |-> MultipleChoice, questionCount |-> DefaultQuestionCount,
     difficulty |-> Medium, topics |-> <<>>]

\* setExamConfig(prevConfig => ({...prevConfig, ...updates}))
updateExamConfig(prevConfig, updates) ==
    [f \in DOMAIN prevConfig \cup DOMAIN updates |->
        IF f \in DOMAIN updates THEN updates[f] ELSE prevConfig[f]]

\* the value of a run of decimal digits
RECURSIVE digitsValue(_)
digitsValue(s) ==
    IF s = <<>> THEN 0
    ELSE digitsValue(SubSeq(s, 1, Len(s) - 1)) * 10
           + ((CHOOSE i \in 1..10 : DigitChars[i] = s[Len(s)]) - 1)

\* parseInt(text): leading white space, an optional sign, then the longest
\* run of digits; NaN when there is no digit
parseInt(text) ==
    LET w == runLength(text, 0, WhiteSpace)
        signed == w < Len(text) /\ text[w + 1] \in {"+", "-"}
        p == IF signed THEN w + 1 ELSE w
        d == runLength(text, p, DigitSet)
        n == digitsValue(SubSeq(text, p + 1, p + d))
    IN IF d = 0 THEN [nan |-> TRUE, value |-> 0]
       ELSE [nan |-> FALSE,
             value |-> IF signed /\ text[w + 1] = "-" THEN 0 - n ELSE n]

\* the Configure component just mounted
ConfigurePage(examConfig) ==
    [name |-> "configure", isTimeLimit |-> FALSE, examConfig |-> examConfig]

\* the Switch calls onCheckedChange with the opposite of its checked prop
handleTimeLimitToggle ==
    /\ page.name = "configure"
    /\ LET checked == ~ page.isTimeLimit
       IN page' = [page EXCEPT
              !.isTimeLimit = checked,
              !.examConfig = updateExamConfig(page.examConfig,
                  [timeLimit |-> IF checked THEN Some(DefaultTimeLimit) ELSE Null])]
    /\ UNCHANGED <<gradeVars, genVars, dbVars, reqs, issued>>

\* the number input is disabled while the switch is off
handleTimeLimitChange(text) ==
    /\ page.name = "configure" /\ page.isTimeLimit
    /\ LET value == parseInt(text)
       IN page' = IF ~ value.nan /\ value.value > 0
                  THEN [page EXCEPT !.examConfig =
                           updateExamConfig(page.examConfig,
                                            [timeLimit |-> Some(value.value)])]
                  ELSE page
    /\ UNCHANGED <<gradeVars, genVars, dbVars, reqs, issued>>

handleExamTypeChange(value) ==
    /\ page.name = "configure"
    /\ page' = [page EXCEPT !.examConfig =
                   updateExamConfig(page.examConfig, [type |-> value])]
    /\ UNCHANGED <<gradeVars, genVars, dbVars, reqs, issued>>

handleQuestionCountChange(value) ==
    /\ page.name = "configure"
    /\ page' = [page EXCEPT !.examConfig =
                   updateExamConfig(page.examConfig, [questionCount |-> value])]
    /\ UNCHANGED <<gradeVars, genVars, dbVars, reqs, issued>>

handleDifficultyChange(value) ==
    /\ page.name = "configure"
    /\ page' = [page EXCEPT !.examConfig =
                   updateExamConfig(page.examConfig, [difficulty |-> value])]
    /\ UNCHANGED <<gradeVars, genVars, dbVars, reqs, issued>>

\* handleNext: navigate(`/exams/${syllabusId}`) unmounts the Configure component
handleNext ==
    /\ page.name = "configure"
    /\ page' = GeneratedExamsPage(page.examConfig, 0)
    /\ UNCHANGED <<gradeVars, genVars, dbVars, reqs, issued>>

\* handleBack of the Generated Exams page: navigate(`/configure/${syllabusId}`)
handleBack ==
    /\ page.name = "exams"
    /\ page' = ConfigurePage(page.examConfig)
    /\ UNCHANGED <<gradeVars, genVars, dbVars, reqs, issued>>

\* what the user can type into the number input: '', '0', '-5', '45', '7.5'
TimeLimitTexts ==
    {<<>>, <<"0">>, <<"-","5">>, <<"4","5">>, <<"7",".","5">>}
\* positions of the slider
SliderValues == {MinQuestionCount, DefaultQuestionCount, MaxQuestionCount}

ConfigureInit ==
    /\ GradeIdle /\ GenIdle /\ DatabaseInit
    /\ page = ConfigurePage(InitialExamConfig)
ConfigureNext ==
    \/ handleTimeLimitToggle
    \/ \E text \in TimeLimitTexts : handleTimeLimitChange(text)
    \/ \E value \in QuestionTypes : handleExamTypeChange(value)
    \/ \E value \in SliderValues : handleQuestionCountChange(value)
    \/ \E value \in Difficulties : handleDifficultyChange(value)
    \/ handleNext
    \/ handleBack
SpecConfigure == ConfigureInit /\ [][ConfigureNext]_vars

\* the Generated Exams page opened for a syllabus with or without exams
GeneratedInit ==
    /\ GradeIdle /\ GenIdle /\ DatabaseInit
    /\ page \in {GeneratedExamsPage(InitialExamConfig, n) : n \in 0..MaxStoredAtOpen}
GeneratedNext ==
    \/ ExamsLoaded
    \/ GenerateSucceeds
    \/ GenerateFails
    \/ RefetchResolves
    \/ handleGenerateMore
SpecGenerated == GeneratedInit /\ [][GeneratedNext]_vars

(***************************************************************************)
(* Properties of the synthesizer, checked under SpecGen.                   *)
(***************************************************************************)
GenMock ==
    generateMockExam(genInput.syllabusContent, genInput.config,
                     extractCourseTitle(genInput.syllabusContent, genInput.filename))

\* C1: when the backend call throws, generateExam does not throw and returns
\* the exam generateMockExam builds from the same syllabus text, config and
\* filename.
C1_FallbackOnBackendFailure ==
    (genOutput.done /\ genInput.backend.throws) =>
        /\ ~ genOutput.result.threw
        /\ genOutput.result.value = GenMock

\* C1 witness: a backend failure answered with a mock exam titled after the
\* filename
C1_Witness ==
    /\ genOutput.done /\ genInput.backend.throws
    /\ ~ genOutput.result.threw
    /\ genInput.syllabusContent = L_plain /\ genInput.filename = F_notes
    /\ Len(genOutput.result.value.questions) = genInput.config.questionCount
    /\ startsWithAt(genOutput.result.value.title, <<"m","y"," ","n","o","t","e","s">>, 0)

\* the response holds no {...} region, or the region is not JSON
MalformedResponse(responseText) ==
    \/ ~ \E i \in DOMAIN responseText : responseText[i].seg # "prose"
    \/ \E i \in DOMAIN responseText : responseText[i].seg = "broken"
    \/ Cardinality({i \in DOMAIN responseText : responseText[i].seg = "object"}) > 1

\* C2: when the backend answers with a malformed text, generateExam returns
\* a mock exam: an object with a title and with questions.
C2_MalformedFallsBackToMock ==
    (genOutput.done /\ ~ genInput.backend.throws
        /\ MalformedResponse(genInput.backend.responseText)) =>
        /\ ~ genOutput.result.threw
        /\ "title" \in DOMAIN genOutput.result.value
        /\ "questions" \in DOMAIN genOutput.result.value

\* C3: on the mock path the exam has exactly questionCount questions, each of
\* the configured type; multiple-choice questions carry options, short-answer
\* questions carry none.
C3_MockCountAndType ==
    (genOutput.done /\ genInput.backend.throws /\ ~ genOutput.result.threw) =>
        LET qs == genOutput.result.value.questions
        IN /\ Len(qs) = genInput.config.questionCount
           /\ \A i \in DOMAIN qs :
                /\ qs[i].questionType = genInput.config.type
                /\ (genInput.config.type = MultipleChoice =>
                        "options" \in DOMAIN qs[i] /\ Len(qs[i].options) > 0)
                /\ (genInput.config.type = ShortAnswer =>
                        "options" \notin DOMAIN qs[i])

\* C3 witness: a short-answer mock exam longer than the topic lines kept
C3_Witness ==
    /\ genOutput.done /\ genInput.backend.throws
    /\ genInput.config.type = ShortAnswer
    /\ genInput.config.questionCount > MaxTopicLines
    /\ Len(genOutput.result.value.questions) = genInput.config.questionCount
    /\ genOutput.result.value.questions[1].questionType = ShortAnswer

(***************************************************************************)
(* Properties of the grader, checked under SpecGrade.                      *)
(***************************************************************************)
SameLetter(c, d) ==
    \E k \in 1..26 : {c, d} = {UpperCaseLetters[k], LowerCaseLetters[k]}

EqualIgnoringCase(a, b) ==
    /\ Len(a) = Len(b)
    /\ \A i \in 1..Len(a) : a[i] = b[i] \/ SameLetter(a[i], b[i])

\* C7: a multiple-choice answer is correct exactly when it equals
\* correctAnswer up to letter case.
C7_MultipleChoiceExact ==
    (gradeResult.done /\ gradeQuestion.questionType = MultipleChoice) =>
        (gradeResult.value <=>
            EqualIgnoringCase(gradeAnswer, gradeQuestion.correctAnswer))

\* C7 witness: an answer that differs from the key only in case, graded correct
C7_Witness ==
    /\ gradeResult.done /\ gradeQuestion.questionType = MultipleChoice
    /\ gradeAnswer # gradeQuestion.correctAnswer
    /\ gradeAnswer # <<>>
    /\ gradeResult.value

\* s in lower case, without the white space at its two ends
Cleaned(s) ==
    LET ink == {i \in 1..Len(s) : s[i] \notin WhiteSpace}
        lo == CHOOSE i \in ink : \A j \in ink : i <= j
        hi == CHOOSE i \in ink : \A j \in ink : j <= i
        lower(c) == IF \E k \in 1..26 : c = UpperCaseLetters[k]
                    THEN LowerCaseLetters[CHOOSE k \in 1..26 : c = UpperCaseLetters[k]]
                    ELSE c
    IN IF ink = {} THEN <<>>
       ELSE [i \in 1..(hi - lo + 1) |-> lower(s[lo + i - 1])]

\* x is a substring of y
Occurs(x, y) ==
    \E i \in 0..(Len(y) - Len(x)) : SubSeq(y, i + 1, i + Len(x)) = x

Connections == 1..NumConnections

\* in this step the handler on c rejects its batch for an unknown questionId
RejectsUnknownQuestion(c) ==
    /\ reqs[c].pc = "processAnswer"
    /\ reqs'[c].pc = "done"
    /\ reqs'[c].response.status = 400
    /\ reqs'[c].response.error = "question not in exam"

\* in this step the handler on c answers an accepted batch
AnswersAccepted(c) ==
    /\ reqs[c].pc = "getAnswers"
    /\ reqs'[c].pc = "done"

\* C4: a batch holding a questionId that is not in the attempt's exam is
\* rejected as a whole: once it is rejected no answer of the batch is stored,
\* and the attempt is still open with its score unchanged.
C4_RejectedBatchStoresNothing ==
    [][\A c \in Connections :
          RejectsUnknownQuestion(c) =>
              /\ ~ \E a \in DOMAIN answers', k \in DOMAIN reqs[c].body :
                     /\ answers'[a].attemptId = reqs[c].attemptId
                     /\ answers'[a].questionId = reqs[c].body[k].questionId
                     /\ answers'[a].answer = reqs[c].body[k].answer
              /\ ~ examAttempts'[reqs[c].attemptId].completedAt
              /\ examAttempts'[reqs[c].attemptId].score = reqs[c].attempt.score]_vars

\* C5: every graded batch and every completed attempt has
\* 0 <= score <= maxScore.
C5_ScoreWithinBounds ==
    /\ \A a \in DOMAIN examAttempts :
          examAttempts[a].completedAt =>
              /\ 0 <= examAttempts[a].score[1]
              /\ examAttempts[a].score[1] <= examAttempts[a].maxScore
    /\ \A c \in Connections :
          (reqs[c].pc = "done" /\ reqs[c].response.status = 200) =>
              /\ 0 <= reqs[c].response.score
              /\ reqs[c].response.score <= reqs[c].response.maxScore

\* C6: an attempt is created with maxScore = the number of questions of its
\* exam, no step changes the maxScore of an attempt, and a batch whose
\* questionIds all belong to the exam, however few, is never rejected: it
\* completes the attempt and the response reports the stored maxScore.
C6_MaxScoreFixedAtCreation ==
    [][/\ \A a \in DOMAIN examAttempts :
             examAttempts'[a].maxScore = examAttempts[a].maxScore
       /\ Len(examAttempts') > Len(examAttempts) =>
             examAttempts'[Len(examAttempts')].maxScore =
                 Cardinality({q \in DOMAIN questions :
                     questions[q].examId = examAttempts'[Len(examAttempts')].examId})
       /\ \A c \in Connections :
             /\ (reqs[c].pc = "processAnswer"
                   /\ \A k \in DOMAIN reqs[c].body :
                          reqs[c].body[k].questionId \in DOMAIN reqs[c].questionsMap)
                 => reqs'[c].pc # "done"
             /\ AnswersAccepted(c) =>
                   /\ reqs'[c].response.status = 200
                   /\ examAttempts'[reqs[c].attemptId].completedAt
                   /\ reqs'[c].response.maxScore =
                          examAttempts'[reqs[c].attemptId].maxScore]_vars

\* C6 witness: an accepted batch that answers one question of a two-question
\* exam
C6_Witness ==
    \E c \in Connections :
        /\ reqs[c].pc = "done" /\ reqs[c].kind = "submit"
        /\ reqs[c].response.status = 200
        /\ reqs[c].response.maxScore = 2
        /\ Cardinality(reqs[c].response.answers) = 1
        /\ examAttempts[reqs[c].response.attemptId].completedAt
        /\ examAttempts[reqs[c].response.attemptId].maxScore = 2

\* the score the loop of the submit handler reaches on a batch
RECURSIVE LoopScore(_, _)
LoopScore(batch, questionsMap) ==
    IF batch = <<>> THEN 0
    ELSE LoopScore(Tail(batch), questionsMap)
         + (IF isAnswerCorrect(questionsMap[Head(batch).questionId], Head(batch).answer)
            THEN 1 ELSE 0)

Reorderings(batch) ==
    {[k \in DOMAIN batch |-> batch[p[k]]] : p \in Permutations(DOMAIN batch)}

\* C9: the score reported for an accepted batch is the number of its answers
\* that isAnswerCorrect grades correct, and every reordering of the batch
\* scores the same.
C9_ScoreCountsCorrectAnswers ==
    [][\A c \in Connections :
          AnswersAccepted(c) =>
              /\ reqs'[c].response.score =
                     Cardinality({k \in DOMAIN reqs[c].body :
                         isAnswerCorrect(reqs[c].questionsMap[reqs[c].body[k].questionId],
                                         reqs[c].body[k].answer)})
              /\ \A b \in Reorderings(reqs[c].body) :
                     LoopScore(b, reqs[c].questionsMap) = reqs'[c].response.score]_vars

\* C9 witness: an accepted batch of two answers, one correct and one not
C9_Witness ==
    \E c \in Connections :
        /\ reqs[c].pc = "done" /\ reqs[c].kind = "submit"
        /\ reqs[c].response.status = 200
        /\ reqs[c].response.score = 1
        /\ Cardinality(reqs[c].response.answers) = 2
        /\ \E a, b \in reqs[c].response.answers :
               answers[a].isCorrect /\ ~ answers[b].isCorrect

\* C10: once an attempt has completedAt set, its score and its stored answers
\* never change, whatever submit requests run concurrently.
C10_GradedOnce ==
    [][\A a \in DOMAIN examAttempts :
          examAttempts[a].completedAt =>
              /\ examAttempts'[a].completedAt
              /\ examAttempts'[a].score = examAttempts[a].score
              /\ {k \in DOMAIN answers' : answers'[k].attemptId = a}
                     = {k \in DOMAIN answers : answers[k].attemptId = a}]_vars

(***************************************************************************)
(* Properties of the not-found outcome, checked under SpecSeq.             *)
(***************************************************************************)
\* C11: a start request for an exam id that does not exist, and a submit
\* request for an attempt id that does not exist, are answered with the
\* not-found outcome (404, never the 400 of a validation error), and the
\* stored attempts and answers are left as they were.
C11_NotFoundIsDistinct ==
    [][\A c \in Connections, id \in 1..MaxId :
          /\ (getExam(id) = Null /\ StartBegin(c, MaxSeqRequests, id)) =>
                /\ reqs'[c].pc = "done"
                /\ reqs'[c].response.status = 404
                /\ reqs'[c].response # ZodError
                /\ UNCHANGED <<examAttempts, answers>>
          /\ (getExamAttempt(id) = Null
                /\ SubmitBegin(c, MaxSeqRequests, id, Bodies(MaxSeqBatch))) =>
                /\ reqs'[c].pc = "done"
                /\ reqs'[c].response.status = 404
                /\ reqs'[c].response # ZodError
                /\ UNCHANGED <<examAttempts, answers>>]_vars

\* C11 witness: with an exam and an attempt stored, a submit for an attempt
\* id that does not exist has been answered not-found
C11_Witness ==
    /\ exams # <<>>
    /\ examAttempts # <<>>
    /\ \E c \in Connections : reqs[c] = Done("submit", NotFound)

\* in this step the generate handler on c answers with a rejection (400)
GenerateRejected(c) ==
    /\ issued' # issued \/ reqs[c].pc # "done"
    /\ reqs'[c].pc = "done"
    /\ reqs'[c].kind = "generate"
    /\ reqs'[c].response.status = 400

\* C12: a generate request that ends in a rejection leaves no exam row and no
\* question row that it created.
C12_RejectedGenerateStoresNothing ==
    [][\A c \in Connections :
          GenerateRejected(c) =>
              /\ Len(exams') = Len(exams)
              /\ Len(questions') = Len(questions)
              /\ reqs[c].pc = "createQuestion" =>
                    /\ reqs[c].examId \notin DOMAIN exams'
                    /\ ~ \E q \in DOMAIN questions' :
                           questions'[q].examId = reqs[c].examId]_vars

(***************************************************************************)
(* Further properties of the synthesizer, checked under SpecGen.           *)
(***************************************************************************)
\* C13: for a valid config, whatever the backend does, generateExam returns
\* an exam with a question list; the list has exactly questionCount questions
\* on the mock path and at most questionCount on the AI path.
C13_QuestionCountBound ==
    (genOutput.done /\ validConfig(genInput.config)) =>
        /\ ~ genOutput.result.threw
        /\ "questions" \in DOMAIN genOutput.result.value
        /\ genInput.backend.throws =>
              Len(genOutput.result.value.questions) = genInput.config.questionCount
        /\ ~ genInput.backend.throws =>
              Len(genOutput.result.value.questions) <= genInput.config.questionCount

(***************************************************************************)
(* Properties of the generation route.                                     *)
(***************************************************************************)
\* the question has an options list and exactly one option carries the id
\* that is its correct answer
OneOptionIsKey(options, correctAnswer) ==
    Cardinality({i \in DOMAIN options : options[i].id = correctAnswer}) = 1

\* C14: every multiple-choice question that generateExam hands to the
\* generation route, and every multiple-choice question the route stores,
\* carries an options list in which exactly one option's id is correctAnswer.
C14_OneCorrectOption ==
    /\ \A c \in Connections :
          (reqs[c].pc = "createQuestion"
              /\ "questions" \in DOMAIN reqs[c].generatedExam) =>
              \A k \in DOMAIN reqs[c].generatedExam.questions :
                  LET q == reqs[c].generatedExam.questions[k]
                  IN ("questionType" \in DOMAIN q
                         /\ q.questionType = MultipleChoice) =>
                         /\ {"options", "correctAnswer"} \subseteq DOMAIN q
                         /\ OneOptionIsKey(q.options, q.correctAnswer)
    /\ \A q \in DOMAIN questions :
          questions[q].questionType = MultipleChoice =>
              /\ questions[q].options # Null
              /\ OneOptionIsKey(questions[q].options[1], questions[q].correctAnswer)

\* the fields of a question that the determinism of the fallback is about
QuestionCore(q) ==
    [topic |-> q.topic, difficulty |-> q.difficulty, content |-> q.content,
     correctAnswer |-> q.correctAnswer]

C16_TruncationStability ==
    (genOutput.done /\ genInput.backend.throws) =>
        LET cut == substring0(genInput.syllabusContent, TruncationLength)
            ref == generateMockExam(cut, genInput.config,
                                    extractCourseTitle(cut, genInput.filename))
            got == genOutput.result.value
        IN /\ got.title = ref.title
           /\ \A k \in DOMAIN got.questions :
                  got.questions[k].topic = ref.questions[k].topic

\* the generation request that stores the questions of exam e is still running
StillPersisting(e) ==
    \E c \in Connections :
        reqs[c].pc = "createQuestion" /\ reqs[c].examId = e

\* C17: the maxScore of every attempt is the number of questions of its exam,
\* once the generation request has stored them all; an attempt started while
\* the questions were being stored is no exception.
C17_MaxScoreIsQuestionTotal ==
    \A a \in DOMAIN examAttempts :
        ~ StillPersisting(examAttempts[a].examId) =>
            examAttempts[a].maxScore =
                Cardinality(getQuestionsByExamId(examAttempts[a].examId))

(***************************************************************************)
(* Properties of extractTopics, checked under SpecTopics.                  *)
(***************************************************************************)
\* a JSON value without content: null, or an array or object without elements
EmptyResult(v) ==
    \/ v.json = "null"
    \/ v.json \in {"array", "object"} /\ v.items = <<>>

\* the response of the backend yields no topics: the call fails, the text
\* holds no well-formed object, or the object has no topics or empty topics
YieldsNoTopics(backend) ==
    \/ backend.throws
    \/ MalformedResponse(backend.responseText)
    \/ LET parsed == safeJsonParse(jsonMatch(backend.responseText).region)
       IN \/ "topics" \notin DOMAIN parsed
          \/ EmptyResult(parsed.topics)
          \/ parsed.topics = Json("number", <<[number |-> 0]>>)

\* C18: extractTopics never throws and never returns an empty result; it
\* returns the seven default topics when the backend fails, answers with an
\* unparsable text or answers without topics, and the topics of the response
\* otherwise.
C18_TopicsNeverEmpty ==
    genOutput.done =>
        /\ ~ genOutput.result.threw
        /\ ~ EmptyResult(genOutput.result.value)
        /\ IF YieldsNoTopics(genInput.backend)
           THEN genOutput.result.value = DefaultTopics
           ELSE genOutput.result.value =
                    safeJsonParse(jsonMatch(genInput.backend.responseText).region).topics

(***************************************************************************)
(* Property of the fallback order, checked under SpecFallback.             *)
(***************************************************************************)
\* C19: when the Gemini backend fails and an OpenAI key is configured,
\* generateExam turns to the OpenAI integration before any degraded result:
\* when that integration answers, its exam is the exam returned.
C19_OpenAiBeforeMock ==
    (genOutput.done /\ genInput.backend.throws
        /\ genInput.openai.configured /\ ~ genInput.openai.throws) =>
        genOutput.result =
            openaiGenerateExam(genInput.syllabusContent, genInput.config,
                               genInput.filename, genInput.openai)

(***************************************************************************)
(* Property of the topic selection, checked under SpecGen.                 *)
(***************************************************************************)
\* the texts a mock topic may be based on: the lines of the syllabus that
\* look like topic or objective markers, and the generic subject areas
AllowedBaseTexts(syllabusContent) ==
    {line \in Range(split(syllabusContent)) : isTopicLine(line)}
        \cup Range(subjectAreas)

\* C20: on the mock path the topic of every question is derived from a
\* syllabus line that looks like a topic or objective marker, or from one of
\* the generic subject-area labels; no other syllabus line is used.
C20_TopicsFromMarkerLines ==
    (genOutput.done /\ genInput.backend.throws) =>
        \A k \in DOMAIN genOutput.result.value.questions :
            \E base \in AllowedBaseTexts(genInput.syllabusContent) :
                genOutput.result.value.questions[k].topic = topicOf(base)

(***************************************************************************)
(* Properties of the mock difficulty and of the title, under SpecGen.      *)
(***************************************************************************)
\* C21: on the mock path with difficulty "mixed" the i-th question (0-based)
\* has the (i mod 3)-th of easy, medium, hard; with any other difficulty
\* every question has the configured one.
C21_DifficultyCycle ==
    (genOutput.done /\ genInput.backend.throws) =>
        \A k \in DOMAIN genOutput.result.value.questions :
            LET i == k - 1
                d == genOutput.result.value.questions[k].difficulty
            IN IF genInput.config.difficulty = Mixed
               THEN /\ (i % 3 = 0 => d = Easy)
                    /\ (i % 3 = 1 => d = Medium)
                    /\ (i % 3 = 2 => d = Hard)
               ELSE d = genInput.config.difficulty

\* C21 witness: a mixed mock exam whose fourth question is easy again
C21_Witness ==
    /\ genOutput.done /\ genInput.backend.throws
    /\ genInput.config.difficulty = Mixed
    /\ genOutput.result.value.questions[2].difficulty = Medium
    /\ genOutput.result.value.questions[3].difficulty = Hard
    /\ genOutput.result.value.questions[4].difficulty = Easy

(***************************************************************************)
(* SpecTitle: the mock path on texts whose labels sit at, before and after *)
(* the tenth line.                                                         *)
(***************************************************************************)
\* 'Title: Cells'
L_title ==
    <<"T","i","t","l","e",":"," ","C","e","l","l","s">>
\* 'SYLLABUS - Bio'
L_syllabus ==
    <<"S","Y","L","L","A","B","U","S"," ","-"," ","B","i","o">>
TitleLinePool == {L_course, L_title, L_syllabus, L_plain}

\* nothing, nine or ten lines without a label before the pooled lines
TitlePrefixes ==
    {<<>>, slice0(ManyTopicLines, TitleLines - 1), slice0(ManyTopicLines, TitleLines)}

TitleContents ==
    {join(pre \o ls, <<"\n">>) :
        pre \in TitlePrefixes, ls \in SeqsUpTo(TitleLinePool, MaxLines)}

TitleInit ==
    /\ genInput \in [syllabusContent : TitleContents, filename : Filenames,
                     config : {c \in ExamConfigs : c.questionCount = MinQuestionCount},
                     backend : {BackendThrows}]
    /\ genOutput = NoOutput
    /\ GradeIdle /\ ServerInit
SpecTitle == TitleInit /\ [][GenNext]_vars

\* the title the mock exam must carry when the course title is t
MockTitle(t) ==
    t \o S_TitleSep \o capitalize(genInput.config.difficulty) \o S_TitleEnd

\* the first TitleLines lines of the text, joined by spaces
FirstLinesOf(content) == join(slice0(split(content), TitleLines), <<" ">>)

\* the labels in the order the code tries them
TitleLabels == <<S_course, S_title, S_syllabus>>

C22_AfterTenthLine ==
    /\ genOutput.done
    /\ genInput.syllabusContent =
           join(slice0(ManyTopicLines, TitleLines) \o <<L_course>>, <<"\n">>)
    /\ genInput.filename = F_notes
    /\ genOutput.result.value.title = MockTitle(<<"m","y"," ","n","o","t","e","s">>)

MaxRetryRequests == 4

RetryBackends == {Responds(AiOneQuestion), Responds(AiGoodExam)}
RetryNext ==
    ServerNext({1}, MaxRetryRequests, MaxSeqBatch, ConcurrentConfigBodies,
               RetryBackends)
SpecRetry == Init /\ [][RetryNext]_vars

\* the stored answers of attempt a that are marked correct
CorrectAnswersOf(a) ==
    {k \in DOMAIN answers : answers[k].attemptId = a /\ answers[k].isCorrect}

\* C25: the stored score of every completed attempt is the number of its
\* stored answers with isCorrect = true.
C25_ScoreCountsStoredAnswers ==
    \A a \in DOMAIN examAttempts :
        examAttempts[a].completedAt =>
            examAttempts[a].score = Some(Cardinality(CorrectAnswersOf(a)))

\* an accepted submission that follows a rejected one completes the attempt
\* with two correct answers stored
C25_RetryAfterRejection ==
    /\ reqs[1].pc = "done" /\ reqs[1].kind = "submit"
    /\ reqs[1].response.status = 200
    /\ examAttempts[1].completedAt
    /\ Cardinality(CorrectAnswersOf(1)) = 2
    /\ issued = MaxRetryRequests

\* the stored answers of attempt a to question q
AnswersTo(a, q) ==
    {k \in DOMAIN answers : answers[k].attemptId = a /\ answers[k].questionId = q}

\* C26: for every attempt and every question at most one answer is stored.
C26_OneAnswerPerQuestion ==
    \A a \in 1..MaxId, q \in 1..MaxQuestionId : Cardinality(AnswersTo(a, q)) <= 1

(***************************************************************************)
(* SpecDelete: the routes with DELETE /api/syllabuses/:id among them,      *)
(* handlers interleaving at their awaits.                                  *)
(***************************************************************************)
DeleteBackends == {Responds(AiOneQuestion)}
DeleteNext ==
    \/ ServerNext(1..NumConnections, MaxRequests, MaxBatch,
                  ConcurrentConfigBodies, DeleteBackends)
    \/ \E c \in 1..NumConnections :
        \/ \E id \in 1..MaxId : DeleteBegin(c, MaxRequests, id)
        \/ DeleteUnlink(c)
        \/ DeleteGetExams(c)
        \/ TxSelectAttempts(c)
        \/ TxDeleteAnswers(c)
        \/ TxDeleteAttempts(c)
        \/ TxDeleteQuestions(c)
        \/ TxDeleteExams(c)
        \/ TxDeleteSyllabus(c)
SpecDelete == Init /\ [][DeleteNext]_vars

\* the rows still stored that derive from syllabus s; a deleted exam or
\* attempt row still tells which syllabus or exam it belonged to
ExamsOf(s) == {e \in DOMAIN exams : exams[e].syllabusId = s}
Remaining(s) ==
    [exams |-> {e \in ExamsOf(s) : Live(exams[e])},
     questions |-> {q \in DOMAIN questions :
                       Live(questions[q]) /\ questions[q].examId \in ExamsOf(s)},
     examAttempts |-> {a \in DOMAIN examAttempts :
                          /\ Live(examAttempts[a])
                          /\ examAttempts[a].examId \in ExamsOf(s)},
     answers |-> {k \in DOMAIN answers :
                     /\ Live(answers[k])
                     /\ examAttempts[answers[k].attemptId].examId \in ExamsOf(s)}]
NothingRemains(s) ==
    Remaining(s) = [exams |-> {}, questions |-> {}, examAttempts |-> {}, answers |-> {}]

\* the syllabuses whose delete was answered 200
SuccessfullyDeleted ==
    {reqs[c].response.syllabusId :
        c \in {d \in DOMAIN reqs : /\ reqs[d].kind = "delete" /\ reqs[d].pc = "done"
                                   /\ reqs[d].response.status = 200}}

\* C23: after a successful delete of a syllabus no exam, question, attempt
\* or answer derived from it is stored, whatever requests ran beside it.
C23_DeleteCascades ==
    \A s \in SuccessfullyDeleted : NothingRemains(s)

\* a delete that finds an exam with its question, an attempt and an answer
\* removes them all
C23_CascadeHappens ==
    /\ 1 \in SuccessfullyDeleted /\ NothingRemains(1)
    /\ Len(exams) = 1 /\ Len(questions) = 1 /\ Len(examAttempts) = 1
    /\ Len(answers) = 1

(***************************************************************************)
(* The Configure page, under SpecConfigure.                                *)
(***************************************************************************)
\* examConfig.timeLimit is defined: the key is there and holds a number
TimeLimitDefined ==
    "timeLimit" \in DOMAIN page.examConfig /\ page.examConfig.timeLimit # Null

\* C30: on the Configure page the switch is on exactly when
\* examConfig.timeLimit is defined, and a defined timeLimit is a positive
\* integer.
C30_SwitchMatchesTimeLimit ==
    page.name = "configure" =>
        /\ page.isTimeLimit <=> TimeLimitDefined
        /\ TimeLimitDefined =>
               /\ page.examConfig.timeLimit[1] \in Nat
               /\ page.examConfig.timeLimit[1] > 0

\* the part of C30 that the code keeps: a defined timeLimit is positive
C30_TimeLimitPositive ==
    TimeLimitDefined =>
        page.examConfig.timeLimit[1] \in Nat /\ page.examConfig.timeLimit[1] > 0

\* the page was left and opened again with a time limit of 45 minutes set
C30_BackWithTimeLimit ==
    /\ page.name = "configure" /\ ~ page.isTimeLimit
    /\ TimeLimitDefined /\ page.examConfig.timeLimit = Some(45)

(***************************************************************************)
(* The Generated Exams page, under SpecGenerated.                          *)
(***************************************************************************)
\* C28: a Generated Exams page opened for a syllabus without exams issues
\* exactly one automatic generation request: one once the empty list is
\* loaded, and no further one when that request succeeds or fails.
C28_OneAutomaticGeneration ==
    (page.name = "exams" /\ page.storedAtOpen = 0 /\ page.exams # Null)
        => page.autoRequests = 1

\* the first automatic request failed and a second one was issued with no
\* click of the user
C28_RetryAfterFailure ==
    /\ page.name = "exams" /\ page.storedAtOpen = 0
    /\ page.failed = 1 /\ page.userRequests = 0 /\ page.autoRequests = 2

\* the first automatic request succeeded and a second one was issued before
\* the refetch answered
C28_RepeatAfterSuccess ==
    /\ page.name = "exams" /\ page.storedAtOpen = 0
    /\ page.failed = 0 /\ page.userRequests = 0 /\ page.autoRequests = 2
    /\ page.stored = 1

(***************************************************************************)
(* The take-exam page, under SpecTakeFair.                                 *)
(***************************************************************************)
\* the time limit is reached
TimeIsUp == page.name = "take-exam" /\ page.timeRemaining = Some(0)
\* a submit request for the attempt has been issued on this page, or the
\* results are shown
SubmitIssued == page.submitRequests > 0 \/ page.showResults

\* C24: once timeRemaining has counted down to 0, a submit request for the
\* attempt is eventually issued: the exam does not stay open unsubmitted.
\* A request issued before the time was up counts as well, so that a
\* behaviour violates this only if it never sends the answers at all.
C24_TimeUpSubmits == TimeIsUp ~> SubmitIssued

\* the time is up, the time-up dialog was closed without Continue, and the
\* exam is open with nothing submitted
C24_OpenAfterTimeUp ==
    /\ TimeIsUp /\ ~ page.ticking /\ ~ page.showTimeUpDialog
    /\ page.attemptId # Null /\ page.submitRequests = 0 /\ ~ page.showResults

\* C29: after the user confirms the submission (or presses Continue in the
\* time-up dialog), eventually the results are shown or isSubmitting is
\* back to false with an error reported.
C29_SubmitSettles ==
    page.isSubmitting ~> (page.showResults \/ (~ page.isSubmitting /\ page.submitFailed))

\* the submission was confirmed when no attempt id was there: isSubmitting
\* is set and no request is on its way
C29_SubmittingWithoutRequest ==
    /\ page.name = "take-exam" /\ page.isSubmitting
    /\ page.attemptId = Null /\ ~ page.starting /\ page.submitting = 0

====
